---- MODULE Spec2Model ----
(***************************************************************************)
(* Step loop of the browser agent: the side-panel port handlers of the     *)
(* background script, NavigatorAgent.execute / doMultiAction, the          *)
(* index-addressed action handlers (click, input text) and the Page        *)
(* click / type fallback cascades they call.                               *)
(*                                                                         *)
(* One step of the model is one run of JavaScript between two suspension   *)
(* points (an await that waits for the browser, the model provider, a      *)
(* timer or an event subscriber); port messages are delivered only at      *)
(* suspension points.                                                      *)
(*                                                                         *)
(* Spec     the port handlers and the step loop; an action's outcome is    *)
(*          computed by its handler, the loop keeps what it reads of it.   *)
(* SpecAct  one call of an index-addressed action inside doMultiAction,    *)
(*          for every state of the page, keeping the whole ActionResult.   *)
(***************************************************************************)
EXTENDS Integers, Sequences, FiniteSets, TLC

\* ---- bounds of the model ----
MaxExecutors == 2      \* executors created by new_task messages
MaxLoops == 2          \* execute() runs started over the whole behaviour
maxSteps == 2          \* context.options.maxSteps (generalSettings.maxSteps)
maxFailures == 2       \* context.options.maxFailures (generalSettings.maxFailures)
MaxFrames == 2         \* iframes enclosing a located element
MaxChildren == 2       \* child nodes of a node of a document
MaxCycles == 3         \* perception cycles of one page
MaxUpdates == 2        \* _updateState calls in progress at the same time
MaxConnections == 3    \* debugger connections made to one tab
MaxCalls == 2          \* attach / detach calls in progress at the same time
MaxPorts == 3          \* connections the side panel opens
MaxPings == 2          \* heartbeats sent on one connection
MaxActionCalls == 2    \* actions of one doMultiAction
MaxMarked == 2         \* elements of the top document that can carry a highlight
MaxRemoves == 3        \* removeHighlight calls in succession
MaxHistoryCycles == 4   \* cycles of the task whose message history is studied
MaxShots == 3          \* takeScreenshot calls in succession
MaxTextLen == 2        \* characters of an option text or of a requested text
MaxOptions == 2        \* options of the select element
MaxModifiers == 3      \* modifier keys of one key combination
MaxElements == 3       \* elements of the page a perception labels
MaxPanels == 3         \* side-panel ports that connect to the background
MaxEvents == 2         \* execution events emitted while ports come and go

\* ---- program constants ----
MaxActionErrors == 3   \* doMultiAction: errCount > 3 aborts the step
ClickTiers == 4        \* clickElementNode: click, scroll+click, JS click, mouse click
TypeTiers == 3         \* inputTextElementNode: type, focus+keyboard, JS value

Executors == 1..MaxExecutors
Loops == 1..MaxLoops
NoExecutor == 0

ActionKinds == {"done", "click_element", "input_text"}
IndexActions == {"click_element", "input_text"}

XPathOutcomes == {"empty", "throws", "notfound", "acted"}

VARIABLES
  currentExecutor,  \* background/index.ts: let currentExecutor
  nCreated,         \* number of Executor objects constructed so far
  ctx,              \* AgentContext of each executor
  loop,             \* one record per run of Executor.execute()
  nTerm,            \* per executor: terminal notifications posted to the port
  lastTerm,         \* per executor: the last of them
  cleanedUp,        \* per executor: cleanup() has been called on it
  oracleCalls,      \* per executor: number of cycles that invoked the oracle
  act,              \* SpecAct: the action call under study
  loc,              \* SpecLocate: the element location under study
  dom,              \* SpecTree: the run of window.buildDomTree under study
  per,              \* SpecPerceive: the perception call under study
  pst,              \* SpecState: Page._state and the perceptions updating it
  drop,             \* SpecDropdown: the dropdown selection under study
  pup,              \* SpecAttach: a Page's debugger connection and the calls on it
  hb,               \* SpecHeartbeat: the side panel's port and heartbeat timer
  ev,               \* SpecEvents: the notifications of the actions of one doMultiAction
  scr,              \* SpecScroll: the scroll_down call under study
  hl,               \* SpecHighlights: the page's highlight overlay and the removals under study
  mem,              \* SpecMemory: the message history over the cycles of one task
  shot,             \* SpecShot: the page's suppressing style and the screenshot calls under study
  sel,              \* SpecSelect: the select element and the selection script under study
  kb,               \* SpecKeys: the keyboard and the sendKeys call under study
  lab,              \* SpecLabels: the page's overlay labels and the perception under study
  bg                \* SpecPorts: the background's side-panel ports under study

\* The variables of the components studied on their own, outside the step loop.
otherVars == <<loc, dom, per, pst, drop, pup, hb, ev, scr, hl, mem, shot, sel, kb, lab, bg>>

vars == <<currentExecutor, nCreated, ctx, loop, nTerm, lastTerm, cleanedUp, oracleCalls, act,
          otherVars>>

\* ---------------------------------------------------------------------------
\* Data
\* ---------------------------------------------------------------------------

\* AgentContext as constructed for a task.
NewContext == [nSteps |-> 0, consecutiveFailures |-> 0, paused |-> FALSE, stopped |-> FALSE]

\* ActionResult, with the facts about the page interaction that produced it:
\*   threw  - the handler threw instead of returning (doMultiAction catches it)
\*   inMap  - the index was a key of the selector map
\*   found  - some locator strategy resolved the element
\*   tried  - the click / type cascade ran on a located element
\*   acted  - some mechanism acted on the element
NoResult == [kind |-> "none", error |-> FALSE, isDone |-> FALSE, threw |-> FALSE,
             inMap |-> FALSE, found |-> FALSE, tried |-> FALSE, acted |-> FALSE]

\* A run of execute(): exec its executor, pc where it is suspended; inside
\* doMultiAction cur is the action in flight, errCount and anyDone what the
\* results so far amount to; out is what NavigatorAgent.execute returned,
\* skipped whether doMultiAction returned with actions of the list left
\* uncalled ("first": before any was called, "next": after one was), called
\* whether the run's last step called an action handler, failed whether the
\* cycle that returned ended in the catch block of execute.
\* The oracle's list is read one action at a time: whether it holds a further
\* action, and which, is chosen when the for loop reaches it.
IdleLoop == [exec |-> NoExecutor, pc |-> "idle", cur |-> "none", errCount |-> 0,
             anyDone |-> FALSE, out |-> "none", skipped |-> "none", called |-> FALSE,
             failed |-> FALSE]

\* What the browser does when an index-addressed handler runs.
Envs ==
  { e \in [connected : BOOLEAN, inMap : BOOLEAN, uploader : BOOLEAN, located : BOOLEAN,
           stealth : BOOLEAN, firstOk : 0..ClickTiers, xpath : XPathOutcomes] :
      \* an element no strategy finds is not reached by its recorded XPath either
      /\ (~e.located => e.xpath # "acted")
      \* facts that are never read are fixed, to keep the choice small
      /\ (~e.inMap => (e.connected /\ ~e.uploader /\ ~e.located /\ ~e.stealth
                         /\ e.firstOk = 0 /\ e.xpath = "empty"))
      /\ (~e.connected => (~e.located /\ ~e.stealth /\ e.firstOk = 0 /\ e.xpath = "empty"))
      /\ (~e.located => (~e.stealth /\ e.firstOk = 0)) }

\* ---------------------------------------------------------------------------
\* Page: click and type cascades
\* ---------------------------------------------------------------------------

\* The last-resort XPath step both cascades end with: it rethrows when the node
\* has no XPath or the evaluation throws, and otherwise returns normally whether
\* or not the script found the element (its boolean result is not read).
XPathLastResort(env, tried) ==
  [threw |-> env.xpath \in {"empty", "throws"},
   found |-> env.located \/ env.xpath = "acted",
   tried |-> tried,
   acted |-> env.xpath = "acted"]

\* Page.clickElementNode
clickElementNode(env) ==
  IF ~env.connected
    THEN [threw |-> TRUE, found |-> FALSE, tried |-> FALSE, acted |-> FALSE]
  ELSE IF ~env.located
    THEN XPathLastResort(env, FALSE)
  ELSE IF (env.stealth /\ env.firstOk = 1) \/ (~env.stealth /\ env.firstOk \in 1..ClickTiers)
    THEN [threw |-> FALSE, found |-> TRUE, tried |-> TRUE, acted |-> TRUE]
  ELSE XPathLastResort(env, TRUE)

\* Page.inputTextElementNode
inputTextElementNode(env) ==
  IF ~env.connected
    THEN [threw |-> TRUE, found |-> FALSE, tried |-> FALSE, acted |-> FALSE]
  ELSE IF ~env.located
    THEN XPathLastResort(env, FALSE)
  ELSE IF env.firstOk \in 1..TypeTiers
    THEN [threw |-> FALSE, found |-> TRUE, tried |-> TRUE, acted |-> TRUE]
  ELSE XPathLastResort(env, TRUE)

\* ---------------------------------------------------------------------------
\* ActionBuilder: handlers of the index-addressed actions
\* ---------------------------------------------------------------------------

Result(kind, error, threw, inMap, c) ==
  [kind |-> kind, error |-> error, isDone |-> FALSE, threw |-> threw,
   inMap |-> inMap, found |-> c.found, tried |-> c.tried, acted |-> c.acted]

Untouched == [threw |-> FALSE, found |-> FALSE, tried |-> FALSE, acted |-> FALSE]

\* (mutant) the handler reports success without looking the index up
clickElement_MissingIsSuccess(env) ==
  Result("click_element", FALSE, FALSE, env.inMap, Untouched)

\* (mutant) the click is attempted before the file-uploader check
clickElement_ClicksUploader(env) ==
  IF ~env.inMap THEN Result("click_element", TRUE, TRUE, FALSE, Untouched)
  ELSE LET c == clickElementNode(env)
       IN  IF env.uploader THEN Result("click_element", FALSE, FALSE, TRUE, c)
           ELSE Result("click_element", c.threw, FALSE, TRUE, c)

\* clickElement: a missing index throws, a file uploader is reported without a
\* click, an exception of clickElementNode is caught and returned as an error.
clickElement(env) ==
  IF ~env.inMap THEN Result("click_element", TRUE, TRUE, FALSE, Untouched)
  ELSE IF env.uploader THEN Result("click_element", FALSE, FALSE, TRUE, Untouched)
  ELSE LET c == clickElementNode(env)
       IN  Result("click_element", c.threw, FALSE, TRUE, c)

\* inputText: nothing is caught in the handler; an exception leaves it.
inputText(env) ==
  IF ~env.inMap THEN Result("input_text", TRUE, TRUE, FALSE, Untouched)
  ELSE LET c == inputTextElementNode(env)
       IN  Result("input_text", c.threw, c.threw, TRUE, c)

\* done: returns at once, isDone set.
DoneResult == [NoResult EXCEPT !.kind = "done", !.isDone = TRUE]

CallAction(kind, env) ==
  IF kind = "click_element" THEN clickElement(env) ELSE inputText(env)

\* The ways a handler can end, as far as doMultiAction tells them apart:
\* it threw, or it returned a result.
Endings == [kind \in IndexActions |-> {CallAction(kind, env).threw : env \in Envs}]

\* ---------------------------------------------------------------------------
\* Event subscription (background/index.ts)
\* ---------------------------------------------------------------------------

TerminalKinds == {"ok", "fail_max_steps", "fail_auth", "fail_too_many", "fail_recover",
                  "cancel"}

\* A terminal event (TASK_OK, TASK_FAIL, TASK_CANCEL) of executor e reaches the
\* subscriber: it is posted to the port and cleanup() runs on currentExecutor.
Emit(e, kind) ==
  /\ nTerm' = [nTerm EXCEPT ![e] = @ + 1]
  /\ lastTerm' = [lastTerm EXCEPT ![e] = kind]
  /\ cleanedUp' = IF currentExecutor # NoExecutor
                    THEN [cleanedUp EXCEPT ![currentExecutor] = TRUE]
                    ELSE cleanedUp

NoEmit == UNCHANGED <<nTerm, lastTerm, cleanedUp>>

\* ---------------------------------------------------------------------------
\* NavigatorAgent
\* ---------------------------------------------------------------------------

\* (mutant) the step limit lets one cycle too many through
StepLimitExceeded_OffByOne(n, max) == n > max + 1

\* execute: if (this.context.nSteps > this.context.options.maxSteps)
StepLimitExceeded(n, max) == n > max

\* (mutant) the failure threshold is compared with > instead of >=
TooManyFailures_OffByOne(n, max) == n > max

\* execute: if (this.context.consecutiveFailures >= this.context.options.maxFailures)
TooManyFailures(n, max) == n >= max

\* (mutant) the third thrown action already aborts doMultiAction
TooManyActionErrors_OffByOne(n) == n >= MaxActionErrors

\* doMultiAction: if (errCount > 3) throw new Error('Too many errors in actions')
TooManyActionErrors(n) == n > MaxActionErrors

\* (mutant) the check before an action reads only the paused flag
PreCheck_IgnoresStopped(e) == ctx[e].paused

\* (mutant) the check before an action reads only the stopped flag
PreCheck_IgnoresPaused(e) == ctx[e].stopped

\* doMultiAction: the check before an action is called
PreCheck(e) == ctx[e].paused \/ ctx[e].stopped

\* doMultiAction: the check after an action has returned
PostCheck(e) == ctx[e].paused \/ ctx[e].stopped

\* execute() returns `out` to the executor's loop.
Return(l, rec, out) ==
  loop' = [loop EXCEPT ![l] = [IdleLoop EXCEPT !.exec = rec.exec, !.pc = "loop", !.out = out,
                                               !.skipped = rec.skipped,
                                               !.called = rec.called,
                                               !.failed = rec.failed]]

\* execute, after doMultiAction has returned its results: TASK_OK when a
\* result has isDone set.
AfterMultiAction(l, rec) ==
  /\ IF rec.anyDone
       THEN Emit(rec.exec, "ok") /\ Return(l, rec, "done")
       ELSE NoEmit /\ Return(l, rec, "notdone")
  /\ UNCHANGED ctx

\* execute, the catch block.
CatchBlock(l, rec0, recoverOk) ==
  LET rec == [rec0 EXCEPT !.failed = TRUE]
      e == rec.exec
      n == ctx[e].consecutiveFailures + 1
  IN  /\ ctx' = [ctx EXCEPT ![e].consecutiveFailures = n]
      /\ IF TooManyFailures(n, maxFailures)
           THEN Emit(e, "fail_too_many") /\ Return(l, rec, "error")
         ELSE IF ~recoverOk
           THEN Emit(e, "fail_recover") /\ Return(l, rec, "error")
         ELSE NoEmit /\ Return(l, rec, "notdone")

\* doMultiAction, the call of the next action of the list and what follows it
\* up to the next suspension: done returns in the same run, the other handlers
\* are awaited.
CallNext(l, rec) ==
  \E kind \in ActionKinds :
    IF kind = "done"
      THEN LET r == [rec EXCEPT !.anyDone = TRUE, !.called = TRUE]
           IN  IF PostCheck(rec.exec)
                 THEN \E more \in BOOLEAN :
                        AfterMultiAction(l, [r EXCEPT !.skipped = IF more THEN "next" ELSE "none"])
                 ELSE /\ loop' = [loop EXCEPT ![l] = [r EXCEPT !.pc = "wait", !.cur = "none"]]
                      /\ NoEmit
                      /\ UNCHANGED ctx
      ELSE /\ loop' = [loop EXCEPT ![l] = [rec EXCEPT !.cur = kind, !.pc = "inflight",
                                                      !.called = TRUE]]
           /\ NoEmit
           /\ UNCHANGED ctx

\* doMultiAction, the head of one iteration of the for loop; first tells the
\* first iteration from the later ones.
Iterate(l, rec, first) ==
  \E more \in BOOLEAN :
    IF ~more
      THEN AfterMultiAction(l, rec)
    ELSE IF PreCheck(rec.exec)
      THEN AfterMultiAction(l, [rec EXCEPT !.skipped = IF first THEN "first" ELSE "next"])
    ELSE CallNext(l, rec)

\* execute, from its entry to the call of the oracle.
NavigatorExecute(l) ==
  /\ loop[l].pc = "cycle"
  /\ LET e == loop[l].exec
         n == ctx[e].nSteps + 1
     IN  /\ ctx' = [ctx EXCEPT ![e].nSteps = n]
         /\ IF StepLimitExceeded(n, maxSteps)
              THEN /\ Emit(e, "fail_max_steps")
                   /\ Return(l, loop[l], "error")
                   /\ UNCHANGED oracleCalls
              ELSE /\ NoEmit
                   /\ loop' = [loop EXCEPT ![l] = [IdleLoop EXCEPT !.exec = e, !.pc = "invoke"]]
                   /\ oracleCalls' = [oracleCalls EXCEPT ![e] = @ + 1]
  /\ UNCHANGED <<currentExecutor, nCreated, act, otherVars>>

\* invoke() resolves with a list of actions and doMultiAction starts.
OracleReturns(l) ==
  /\ loop[l].pc = "invoke"
  /\ Iterate(l, [loop[l] EXCEPT !.called = FALSE], TRUE)
  /\ UNCHANGED <<currentExecutor, nCreated, oracleCalls, act, otherVars>>

\* invoke() rejects with an error that is no authentication error.
OracleThrows(l) ==
  /\ loop[l].pc = "invoke"
  /\ \E recoverOk \in BOOLEAN : CatchBlock(l, loop[l], recoverOk)
  /\ UNCHANGED <<currentExecutor, nCreated, oracleCalls, act, otherVars>>

\* invoke() rejects with an authentication error: TASK_FAIL is emitted and
\* awaited, then ChatModelAuthError is thrown inside the try block.
OracleAuthError(l) ==
  /\ loop[l].pc = "invoke"
  /\ Emit(loop[l].exec, "fail_auth")
  /\ loop' = [loop EXCEPT ![l].pc = "auth_thrown"]
  /\ UNCHANGED <<currentExecutor, nCreated, ctx, oracleCalls, act, otherVars>>

\* The ChatModelAuthError reaches the catch block of execute.
AuthErrorCaught(l) ==
  /\ loop[l].pc = "auth_thrown"
  /\ \E recoverOk \in BOOLEAN : CatchBlock(l, loop[l], recoverOk)
  /\ UNCHANGED <<currentExecutor, nCreated, oracleCalls, act, otherVars>>

\* doMultiAction, from the settling of the awaited handler to the next
\* suspension: a returned result is pushed and the flags are checked, a thrown
\* error is counted, pushed as an error result, and the loop goes on at once.
Settle(l, rec, threw) ==
  IF threw
    THEN LET rec1 == [rec EXCEPT !.errCount = @ + 1]
         IN  IF TooManyActionErrors(rec1.errCount)
               THEN \E recoverOk \in BOOLEAN : CatchBlock(l, rec1, recoverOk)
               ELSE Iterate(l, rec1, FALSE)
    ELSE IF PostCheck(rec.exec)
           THEN \E more \in BOOLEAN :
                  AfterMultiAction(l, [rec EXCEPT !.skipped = IF more THEN "next" ELSE "none"])
           ELSE /\ loop' = [loop EXCEPT ![l] = [rec EXCEPT !.pc = "wait", !.cur = "none"]]
                /\ NoEmit
                /\ UNCHANGED ctx

\* The action in flight settles, in one of the ways its handler can end.
ActionCompletes(l) ==
  /\ loop[l].pc = "inflight"
  /\ \E threw \in Endings[loop[l].cur] :
       Settle(l, [loop[l] EXCEPT !.called = FALSE], threw)
  /\ UNCHANGED <<currentExecutor, nCreated, oracleCalls, act, otherVars>>

\* The one-second wait after an action ends.
WaitElapses(l) ==
  /\ loop[l].pc = "wait"
  /\ Iterate(l, [loop[l] EXCEPT !.called = FALSE], FALSE)
  /\ UNCHANGED <<currentExecutor, nCreated, oracleCalls, act, otherVars>>

\* ---------------------------------------------------------------------------
\* Executor (agent/executor): the loop around NavigatorAgent.execute and the
\* flag setters
\* ---------------------------------------------------------------------------

\* Between two cycles: a done or failed step ends the run, a set stopped flag
\* ends it as cancelled, a set paused flag holds it, otherwise the next cycle
\* starts.
ExecutorLoop(l) ==
  /\ loop[l].pc = "loop"
  /\ LET e == loop[l].exec
         fin == [IdleLoop EXCEPT !.exec = e, !.pc = "finished"]
     IN  IF loop[l].out \in {"done", "error"}
           THEN NoEmit /\ loop' = [loop EXCEPT ![l] = fin]
         ELSE IF ctx[e].stopped
           THEN Emit(e, "cancel") /\ loop' = [loop EXCEPT ![l] = fin]
         ELSE /\ ~ctx[e].paused
              /\ NoEmit
              /\ loop' = [loop EXCEPT ![l] = [IdleLoop EXCEPT !.exec = e, !.pc = "cycle"]]
  /\ UNCHANGED <<currentExecutor, nCreated, ctx, oracleCalls, act, otherVars>>

cancel(e) == ctx' = [ctx EXCEPT ![e].stopped = TRUE]
pause(e) == ctx' = [ctx EXCEPT ![e].paused = TRUE]
resume(e) == ctx' = [ctx EXCEPT ![e].paused = FALSE]

\* execute() is called on executor e: a new run of the loop.
StartExecute(e) ==
  LET l == CHOOSE k \in Loops : loop[k].pc = "idle" /\ \A j \in 1..(k - 1) : loop[j].pc # "idle"
  IN  loop' = [loop EXCEPT ![l] = [IdleLoop EXCEPT !.exec = e, !.pc = "loop"]]

HasIdleLoop == \E k \in Loops : loop[k].pc = "idle"

\* ---------------------------------------------------------------------------
\* Port messages (background/index.ts)
\* ---------------------------------------------------------------------------

\* new_task: a fresh executor replaces currentExecutor and is executed.
NewTask ==
  /\ nCreated < MaxExecutors
  /\ HasIdleLoop
  /\ nCreated' = nCreated + 1
  /\ currentExecutor' = nCreated + 1
  /\ StartExecute(nCreated + 1)
  /\ UNCHANGED <<ctx, nTerm, lastTerm, cleanedUp, oracleCalls, act, otherVars>>

\* follow_up_task: the current executor is executed again.
FollowUpTask ==
  /\ currentExecutor # NoExecutor
  /\ HasIdleLoop
  /\ StartExecute(currentExecutor)
  /\ UNCHANGED <<currentExecutor, nCreated, ctx, nTerm, lastTerm, cleanedUp, oracleCalls, act, otherVars>>

CancelTask ==
  /\ currentExecutor # NoExecutor
  /\ cancel(currentExecutor)
  /\ UNCHANGED <<currentExecutor, nCreated, loop, nTerm, lastTerm, cleanedUp, oracleCalls, act, otherVars>>

PauseTask ==
  /\ currentExecutor # NoExecutor
  /\ pause(currentExecutor)
  /\ UNCHANGED <<currentExecutor, nCreated, loop, nTerm, lastTerm, cleanedUp, oracleCalls, act, otherVars>>

ResumeTask ==
  /\ currentExecutor # NoExecutor
  /\ resume(currentExecutor)
  /\ UNCHANGED <<currentExecutor, nCreated, loop, nTerm, lastTerm, cleanedUp, oracleCalls, act, otherVars>>

\* ---------------------------------------------------------------------------
\* Specification of the step loop
\* ---------------------------------------------------------------------------

NoAct == [phase |-> "none"]

\* No component is studied on its own.
OthersIdle == loc = NoAct /\ dom = NoAct /\ per = NoAct /\ pst = NoAct /\ drop = NoAct /\ pup = NoAct /\ hb = NoAct /\ ev = NoAct /\ scr = NoAct /\ hl = NoAct /\ mem = NoAct /\ shot = NoAct /\ sel = NoAct /\ kb = NoAct /\ lab = NoAct /\ bg = NoAct

\* No component but the one held by variable `it` is studied.
OthersIdleBut(it) ==
  /\ IF it = "loc" THEN TRUE ELSE loc = NoAct
  /\ IF it = "dom" THEN TRUE ELSE dom = NoAct
  /\ IF it = "per" THEN TRUE ELSE per = NoAct
  /\ IF it = "pst" THEN TRUE ELSE pst = NoAct
  /\ IF it = "drop" THEN TRUE ELSE drop = NoAct
  /\ IF it = "pup" THEN TRUE ELSE pup = NoAct
  /\ IF it = "hb" THEN TRUE ELSE hb = NoAct
  /\ IF it = "ev" THEN TRUE ELSE ev = NoAct
  /\ IF it = "scr" THEN TRUE ELSE scr = NoAct
  /\ IF it = "hl" THEN TRUE ELSE hl = NoAct
  /\ IF it = "mem" THEN TRUE ELSE mem = NoAct
  /\ IF it = "shot" THEN TRUE ELSE shot = NoAct
  /\ IF it = "sel" THEN TRUE ELSE sel = NoAct
  /\ IF it = "kb" THEN TRUE ELSE kb = NoAct
  /\ IF it = "lab" THEN TRUE ELSE lab = NoAct
  /\ IF it = "bg" THEN TRUE ELSE bg = NoAct

\* No task has been started.
StepLoopIdle ==
  /\ currentExecutor = NoExecutor
  /\ nCreated = 0
  /\ ctx = [e \in Executors |-> NewContext]
  /\ loop = [l \in Loops |-> IdleLoop]
  /\ nTerm = [e \in Executors |-> 0]
  /\ lastTerm = [e \in Executors |-> "none"]
  /\ cleanedUp = [e \in Executors |-> FALSE]
  /\ oracleCalls = [e \in Executors |-> 0]
  /\ act = NoAct

stepVars == <<currentExecutor, nCreated, ctx, loop, nTerm, lastTerm, cleanedUp, oracleCalls, act>>

Init ==
  /\ currentExecutor = NoExecutor
  /\ nCreated = 0
  /\ ctx = [e \in Executors |-> NewContext]
  /\ loop = [l \in Loops |-> IdleLoop]
  /\ nTerm = [e \in Executors |-> 0]
  /\ lastTerm = [e \in Executors |-> "none"]
  /\ cleanedUp = [e \in Executors |-> FALSE]
  /\ oracleCalls = [e \in Executors |-> 0]
  /\ act = NoAct
  /\ OthersIdle

Next ==
  \/ NewTask
  \/ FollowUpTask
  \/ CancelTask
  \/ PauseTask
  \/ ResumeTask
  \/ \E l \in Loops : ExecutorLoop(l)
  \/ \E l \in Loops : NavigatorExecute(l)
  \/ \E l \in Loops : OracleReturns(l)
  \/ \E l \in Loops : OracleThrows(l)
  \/ \E l \in Loops : OracleAuthError(l)
  \/ \E l \in Loops : AuthErrorCaught(l)
  \/ \E l \in Loops : ActionCompletes(l)
  \/ \E l \in Loops : WaitElapses(l)

Spec == Init /\ [][Next]_vars

\* ---------------------------------------------------------------------------
\* Specification of one action call
\* ---------------------------------------------------------------------------

\* doMultiAction, the try / catch around one call: a thrown error is counted
\* and, unless it is one too many, becomes an error result of its own; one too
\* many aborts doMultiAction with an error that the catch block of execute
\* handles.
doAction(kind, env, errCount) ==
  LET r == CallAction(kind, env)
  IN  IF ~r.threw
        THEN [outcome |-> "result", result |-> r, errCount |-> errCount]
      ELSE IF errCount + 1 > MaxActionErrors
        THEN [outcome |-> "step_failed", result |-> NoResult, errCount |-> errCount + 1]
      ELSE [outcome |-> "result", result |-> r, errCount |-> errCount + 1]

InitAct ==
  /\ currentExecutor = NoExecutor
  /\ nCreated = 0
  /\ ctx = [e \in Executors |-> NewContext]
  /\ loop = [l \in Loops |-> IdleLoop]
  /\ nTerm = [e \in Executors |-> 0]
  /\ lastTerm = [e \in Executors |-> "none"]
  /\ cleanedUp = [e \in Executors |-> FALSE]
  /\ oracleCalls = [e \in Executors |-> 0]
  /\ OthersIdle
  /\ \E kind \in IndexActions, env \in Envs, n \in 0..MaxActionErrors :
       act = [phase |-> "called", kind |-> kind, env |-> env, errCount |-> n,
              outcome |-> "none", result |-> NoResult]

ActionSettles ==
  /\ act.phase = "called"
  /\ LET d == doAction(act.kind, act.env, act.errCount)
     IN  act' = [act EXCEPT !.phase = "settled", !.outcome = d.outcome, !.result = d.result,
                            !.errCount = d.errCount]
  /\ UNCHANGED <<currentExecutor, nCreated, ctx, loop, nTerm, lastTerm, cleanedUp, oracleCalls, otherVars>>

NextAct == ActionSettles

SpecAct == InitAct /\ [][NextAct]_vars

\* ---------------------------------------------------------------------------
\* Properties
\* ---------------------------------------------------------------------------

\* Run l is inside execute().
Executing(l) == loop[l].pc \notin {"idle", "finished"}

\* This step is a step of run l in which it calls an action handler.
HandlerCalled(l) == loop'[l] # loop[l] /\ loop'[l].called

\* Run l is the only run of its executor, before and after this step.
SoleRun(l) ==
  \A k \in Loops \ {l} : loop[k].exec # loop[l].exec /\ loop'[k].exec # loop[l].exec

\* C1: for one task, at most one terminal notification (task-ok, task-fail,
\* task-cancel) is emitted, and once it is emitted the task takes no further
\* step: no notification, no step-counter or failure-counter update, no oracle
\* call, no action.
C1_SingleTerminalNotification ==
  [][\A l \in Loops :
       LET e == loop[l].exec
       IN  (e # NoExecutor /\ SoleRun(l) /\ nTerm[e] >= 1)
             => /\ nTerm'[e] = nTerm[e]
                /\ ctx'[e].nSteps = ctx[e].nSteps
                /\ ctx'[e].consecutiveFailures = ctx[e].consecutiveFailures
                /\ oracleCalls'[e] = oracleCalls[e]
                /\ ~HandlerCalled(l)]_vars

\* C2: in a multi-action step, once the stopped flag is set after an action
\* has started (while it is in flight or during the wait that follows it), the
\* handler of the next action is never called.
C2_NoActionAfterStop ==
  [][\A l \in Loops :
       (loop[l].pc \in {"inflight", "wait"} /\ ctx[loop[l].exec].stopped)
         => ~HandlerCalled(l)]_vars

\* C2 witness: doMultiAction has called an action and returned with the next
\* action of the list left uncalled, the task being stopped.
C2_Witness ==
  \E l \in Loops :
    /\ loop[l].pc = "loop" /\ loop[l].skipped = "next"
    /\ ctx[loop[l].exec].stopped /\ ~ctx[loop[l].exec].paused

\* C3: a new_task message never leaves the step loops of two executors running
\* at the same time.
C3_SingleExecutorRunning ==
  \A l, k \in Loops : (Executing(l) /\ Executing(k)) => loop[l].exec = loop[k].exec

\* C4: for one executor, no two action calls are in flight at the same time.
C4_OneCallInFlight ==
  \A e \in Executors : Cardinality({l \in Loops : loop[l].exec = e /\ loop[l].pc = "inflight"}) <= 1

\* The last terminal notification of e reports a failed cycle.
FailedByError(e) == lastTerm[e] \in {"fail_auth", "fail_recover", "fail_too_many"}

C6_CancelDiscardsResult ==
  [][\A l \in Loops :
       LET e == loop[l].exec
       IN  (loop[l].pc = "inflight" /\ ctx[e].stopped /\ loop'[l] # loop[l])
             => ~(nTerm'[e] = nTerm[e] + 1 /\ lastTerm'[e] = "ok")]_vars

\* C7: while the paused flag of a task is set, no action handler is called.
C7_NoActionWhilePaused ==
  [][\A l \in Loops :
       (loop[l].exec # NoExecutor /\ ctx[loop[l].exec].paused) => ~HandlerCalled(l)]_vars

\* C7 witness: doMultiAction has called an action and returned with the next
\* action of the list left uncalled, the task being paused.
C7_Witness ==
  \E l \in Loops :
    /\ loop[l].pc = "loop" /\ loop[l].skipped = "next"
    /\ ctx[loop[l].exec].paused /\ ~ctx[loop[l].exec].stopped

\* C8: the oracle is invoked in at most maxSteps cycles of a task, and the
\* cycle that finds the step counter no longer below maxSteps ends the task
\* with a maximum-steps task-fail, invoking neither the oracle nor an action.
C8_StepBudget ==
  /\ [](\A e \in Executors : oracleCalls[e] <= maxSteps)
  /\ [][\A l \in Loops :
          LET e == loop[l].exec
          IN  (loop[l].pc = "cycle" /\ ctx[e].nSteps >= maxSteps /\ loop'[l] # loop[l])
                => /\ nTerm'[e] = nTerm[e] + 1 /\ lastTerm'[e] = "fail_max_steps"
                   /\ loop'[l].pc = "loop" /\ loop'[l].out = "error"
                   /\ oracleCalls'[e] = oracleCalls[e]
                   /\ ~HandlerCalled(l)]_vars

\* C8 witness: a task has used its maxSteps oracle calls and the next cycle has
\* failed it for the step limit.
C8_Witness ==
  \E e \in Executors : oracleCalls[e] = maxSteps /\ lastTerm[e] = "fail_max_steps"

\* C9: an index-addressed action whose element no locator strategy finds does
\* not yield a successful result: its result carries an error, or the step is
\* failed for too many action errors.
C9_StaleTargetIsError ==
  (act.phase = "settled" /\ act.env.inMap /\ ~act.env.uploader /\ act.env.connected
     /\ ~act.env.located)
    => (act.outcome = "step_failed" \/ act.result.error)

\* C10: when the click or type cascade ran on the element and neither the
\* primary mechanism nor any fallback acted on it, the action's result carries
\* an error.
C10_ExhaustedFallbacksIsError ==
  (act.phase = "settled" /\ act.outcome = "result" /\ act.result.tried /\ ~act.result.acted)
    => act.result.error

TypeOK ==
  /\ currentExecutor \in 0..MaxExecutors
  /\ \A l \in Loops : loop[l].pc \in {"idle", "loop", "cycle", "invoke", "auth_thrown",
                                      "inflight", "wait", "finished"}

\* ---------------------------------------------------------------------------
\* Page: element location (locateElement, _fallbackElementLocation)
\* ---------------------------------------------------------------------------

\* What the query for one enclosing iframe does: the frame element is found and
\* its content frame is given, the selector matches nothing, the element has no
\* content frame, currentFrame.$ rejects, contentFrame() rejects.
FrameOutcomes == {"ok", "missing", "noframe", "query_throws", "frame_throws"}

\* What the query for the element itself does: no match, currentFrame.$
\* rejects, a handle, a handle and _scrollIntoViewIfNeeded rejects.
QueryOutcomes == {"null", "throws", "handle", "scroll_throws"}

\* What one fallback strategy does: "skip" the node lacks what the strategy
\* needs, "none" nothing is found, "throws" the query rejects, "other" an
\* element that is not the target is returned, "target" the target is.
StrategyOutcomes == {"skip", "none", "throws", "other", "target"}

RECURSIVE SeqsUpTo(_, _)
SeqsUpTo(S, n) ==
  IF n = 0 THEN {<<>>}
  ELSE LET shorter == SeqsUpTo(S, n - 1)
       IN  shorter \cup {Append(q, x) : q \in {r \in shorter : Len(r) = n - 1}, x \in S}

\* Page.locateElement: the iframe ancestors are entered outermost first, with no
\* try around their queries; the query of the element is inside a try.
RECURSIVE EnterFrames(_)
EnterFrames(frames) ==
  IF frames = <<>> THEN "entered"
  ELSE IF Head(frames) \in {"query_throws", "frame_throws"} THEN "raised"
  ELSE IF Head(frames) \in {"missing", "noframe"} THEN "null"
  ELSE EnterFrames(Tail(frames))

locateElement(connected, frames, query) ==
  IF ~connected THEN "null"
  ELSE LET f == EnterFrames(frames)
       IN  IF f # "entered" THEN f
           ELSE IF query = "handle" THEN "target" ELSE "null"

\* Page._fallbackElementLocation: by id, by the element at the recorded
\* coordinates, by tag and attributes, by XPath; the first strategy that yields
\* an element ends the search, a rejection moves on to the next strategy.
RECURSIVE FirstFound(_)
FirstFound(tries) ==
  IF tries = <<>> THEN "null"
  ELSE IF Head(tries) \in {"other", "target"} THEN Head(tries)
  ELSE FirstFound(Tail(tries))

fallbackElementLocation(byId, byPoint, byTag, byXPath) ==
  FirstFound(<<byId, byPoint, byTag, byXPath>>)

\* The documents a location can run against: a strategy yields the target
\* only if the target is in the document, the id and XPath queries yield
\* nothing else than the target, and an element node always has a tag name.
LocateCalls ==
  { c \in [fn : {"locateElement"}, connected : BOOLEAN, present : BOOLEAN,
           frames : SeqsUpTo(FrameOutcomes, MaxFrames), query : QueryOutcomes] :
      /\ (c.query \in {"handle", "scroll_throws"} => c.present)
      /\ (~c.connected => c.frames = <<>> /\ c.query = "null") }
  \cup
  { c \in [fn : {"fallback"}, present : BOOLEAN, byId : StrategyOutcomes \ {"other"},
           byPoint : StrategyOutcomes, byTag : StrategyOutcomes \ {"skip"},
           byXPath : StrategyOutcomes \ {"other"}] :
      ~c.present => "target" \notin {c.byId, c.byPoint, c.byTag, c.byXPath} }

InitLocate ==
  /\ StepLoopIdle
  /\ OthersIdleBut("loc")
  /\ \E c \in LocateCalls : loc = [phase |-> "called", call |-> c, result |-> "none"]

\* locateElement settles.
LocateElementSettles ==
  /\ loc.phase = "called" /\ loc.call.fn = "locateElement"
  /\ loc' = [loc EXCEPT !.phase = "settled",
                        !.result = locateElement(loc.call.connected, loc.call.frames,
                                                 loc.call.query)]
  /\ UNCHANGED <<stepVars, dom, per, pst, drop, pup, hb, ev, scr, hl, mem, shot, sel, kb, lab, bg>>

\* _fallbackElementLocation settles.
FallbackLocationSettles ==
  /\ loc.phase = "called" /\ loc.call.fn = "fallback"
  /\ loc' = [loc EXCEPT !.phase = "settled",
                        !.result = fallbackElementLocation(loc.call.byId, loc.call.byPoint,
                                                           loc.call.byTag, loc.call.byXPath)]
  /\ UNCHANGED <<stepVars, dom, per, pst, drop, pup, hb, ev, scr, hl, mem, shot, sel, kb, lab, bg>>

NextLocate == LocateElementSettles \/ FallbackLocationSettles

SpecLocate == InitLocate /\ [][NextLocate]_vars

\* C11: locating an element whose target, or an iframe enclosing it, is no
\* longer in the document yields "not found": it neither raises nor yields an
\* element.
C11_StaleLocateIsNotFound ==
  (loc.phase = "settled" /\ ~loc.call.present) => loc.result = "null"

\* ---------------------------------------------------------------------------
\* Page script: window.buildDomTree
\* ---------------------------------------------------------------------------

\* What processing a node of the document comes to:
\*   text            a visible text node
\*   rejected        an element isElementAccepted refuses (or an empty text)
\*   throws          an element whose processing raises outside the guarded
\*                   blocks (isElementAccepted, generateCssSelector, ...)
\*   flags_throw     the evaluation of the three flags raises
\*   hot             interactive, visible and topmost
\*   hot_hl_throws   the same, and highlightElement raises when called on it
\*   not_interactive, not_visible, not_top   one flag is false
\* and for document.body also
\*   throws_all      as throws, and document.body.children raises too
ElementProfiles == {"rejected", "throws", "flags_throw", "hot", "hot_hl_throws",
                    "not_interactive", "not_visible", "not_top"}
Profiles == ElementProfiles \cup {"text"}
LeafProfiles == {"text", "throws", "hot", "hot_hl_throws"}
BodyProfiles == {"not_interactive", "throws", "throws_all"}
Raising == {"throws", "throws_all"}

NoIndex == -1

\* null, where a node is expected
NullNode == [tag |-> "null"]

\* Documents: body, its children, their children.
Leaves == {[p |-> q, kids |-> <<>>] : q \in LeafProfiles}
Inner == {[p |-> q, kids |-> k] : q \in Profiles, k \in SeqsUpTo(Leaves, MaxChildren)}
Documents ==
  {[p |-> q, kids |-> k] : q \in BodyProfiles, k \in SeqsUpTo(Inner, MaxChildren)}

\* The arguments of window.buildDomTree that the traversal reads.
BuildArgs == {[doHighlightElements |-> TRUE, focusHighlightIndex |-> -1],
              [doHighlightElements |-> TRUE, focusHighlightIndex |-> 0],
              [doHighlightElements |-> FALSE, focusHighlightIndex |-> -1]}

\* buildDomTree: highlightElement is called for the index.
Highlighted(args, index) ==
  /\ args.doHighlightElements
  /\ (args.focusHighlightIndex >= 0 => args.focusHighlightIndex = index)

\* (mutant) the counter is not advanced
NextHighlightIndex_Stuck(n) == n

\* buildDomTree: nodeData.highlightIndex = highlightIndex++
NextHighlightIndex(n) == n + 1

NodeData(tag, interactive, visible, top, index, kids, error) ==
  [tag |-> tag, isInteractive |-> interactive, isVisible |-> visible, isTopElement |-> top,
   highlightIndex |-> index, children |-> kids, error |-> error]

\* buildDomTree(node): [node, ctr, threw]; node is NullNode for a node left out.
RECURSIVE buildDomTree(_, _, _)
RECURSIVE BuildChildren(_, _, _)

\* Array.from(node.childNodes).map(buildDomTree).filter(Boolean): a child that
\* raises ends the map.
BuildChildren(kids, args, ctr) ==
  IF kids = <<>> THEN [nodes |-> <<>>, ctr |-> ctr, threw |-> FALSE]
  ELSE LET first == buildDomTree(Head(kids), args, ctr)
       IN  IF first.threw THEN [nodes |-> <<>>, ctr |-> first.ctr, threw |-> TRUE]
           ELSE LET rest == BuildChildren(Tail(kids), args, first.ctr)
                IN  [rest EXCEPT !.nodes = IF first.node = NullNode THEN @
                                            ELSE <<first.node>> \o @]

buildDomTree(node, args, ctr) ==
  IF node.p = "text"
    THEN [node |-> NodeData("text", FALSE, TRUE, FALSE, NoIndex, <<>>, FALSE),
          ctr |-> ctr, threw |-> FALSE]
  ELSE IF node.p = "rejected" THEN [node |-> NullNode, ctr |-> ctr, threw |-> FALSE]
  ELSE IF node.p \in Raising THEN [node |-> NullNode, ctr |-> ctr, threw |-> TRUE]
  ELSE
    LET hot == node.p \in {"hot", "hot_hl_throws"}
        caught == \/ node.p = "flags_throw"
                  \/ node.p = "hot_hl_throws" /\ Highlighted(args, ctr)
        index == IF hot THEN ctr ELSE NoIndex
        ctr1 == IF hot THEN NextHighlightIndex(ctr) ELSE ctr
        \* the children are built inside a try: a child that raises leaves
        \* the node without children
        built == BuildChildren(node.kids, args, ctr1)
        kids == IF built.threw THEN <<>> ELSE built.nodes
    IN  [node |-> NodeData("element",
                           IF caught THEN FALSE ELSE node.p # "not_interactive",
                           IF caught THEN TRUE ELSE node.p # "not_visible",
                           IF caught THEN FALSE ELSE node.p # "not_top",
                           index, kids, FALSE),
         ctr |-> built.ctr, threw |-> FALSE]

\* The fallback traversal: each element child of body on its own, a child
\* that raises is left out.
RECURSIVE BuildEach(_, _, _)
BuildEach(kids, args, ctr) ==
  IF kids = <<>> THEN <<>>
  ELSE IF Head(kids).p = "text" THEN BuildEach(Tail(kids), args, ctr)
  ELSE LET first == buildDomTree(Head(kids), args, ctr)
       IN  (IF first.threw \/ first.node = NullNode THEN <<>> ELSE <<first.node>>)
             \o BuildEach(Tail(kids), args, first.ctr)

\* window.buildDomTree: the whole document, else body's children one by one
\* under a placeholder body, else the placeholder with an error marker.
windowBuildDomTree(doc, args) ==
  LET full == buildDomTree(doc, args, 0)
  IN  IF ~full.threw THEN full.node
      ELSE IF doc.p # "throws_all"
        THEN NodeData("body", FALSE, TRUE, TRUE, NoIndex, BuildEach(doc.kids, args, full.ctr),
                      FALSE)
      ELSE NodeData("body", FALSE, TRUE, TRUE, NoIndex, <<>>, TRUE)

InitTree ==
  /\ StepLoopIdle
  /\ OthersIdleBut("dom")
  /\ \E d \in Documents, a \in BuildArgs :
       dom = [phase |-> "called", doc |-> d, args |-> a, tree |-> NullNode]

BuildDomTreeReturns ==
  /\ dom.phase = "called"
  /\ dom' = [dom EXCEPT !.phase = "returned", !.tree = windowBuildDomTree(dom.doc, dom.args)]
  /\ UNCHANGED <<stepVars, loc, per, pst, drop, pup, hb, ev, scr, hl, mem, shot, sel, kb, lab, bg>>

NextTree == BuildDomTreeReturns

SpecTree == InitTree /\ [][NextTree]_vars

\* The element nodes of a returned tree, in depth-first order.
RECURSIVE ElementsOf(_)
RECURSIVE ElementsOfAll(_)
ElementsOfAll(nodes) ==
  IF nodes = <<>> THEN <<>> ELSE ElementsOf(Head(nodes)) \o ElementsOfAll(Tail(nodes))
ElementsOf(node) ==
  (IF node.tag = "text" THEN <<>> ELSE <<node>>) \o ElementsOfAll(node.children)

\* The highlight indices of a returned tree, in depth-first order.
IndicesOf(tree) ==
  LET els == ElementsOf(tree)
      RECURSIVE Pick(_)
      Pick(q) == IF q = <<>> THEN <<>>
                 ELSE (IF Head(q).highlightIndex # NoIndex THEN <<Head(q).highlightIndex>>
                       ELSE <<>>) \o Pick(Tail(q))
  IN  Pick(els)

StrictlyIncreasing(q) == \A i \in 1..(Len(q) - 1) : q[i] < q[i + 1]

\* Some node of the document raises outside the guarded blocks.
RECURSIVE AnyRaises(_)
AnyRaises(node) ==
  \/ node.p \in Raising
  \/ \E i \in 1..Len(node.kids) : AnyRaises(node.kids[i])

C13_IndexIffAllFlags ==
  dom.phase = "returned"
    => LET els == ElementsOf(dom.tree)
       IN  \A i \in 1..Len(els) :
             (els[i].highlightIndex # NoIndex)
               <=> (els[i].isInteractive /\ els[i].isVisible /\ els[i].isTopElement)

\* ---------------------------------------------------------------------------
\* dom/service: the perception call (getClickableElements, _buildDomTree)
\* ---------------------------------------------------------------------------

\* What a run of window.buildDomTree in the page gives back to the service:
\*   tree         a tree (from the full or the per-child traversal)
\*   placeholder  the script's placeholder root with its error marker
\*   null         null (no body, or the injected wrapper caught an exception)
\*   malformed    a value parseNode cannot turn into an element node
\*   timeout      nothing within the ten seconds of the race
\*   throws       chrome.scripting.executeScript rejects
ScriptOutcomes == {"tree", "placeholder", "null", "malformed", "timeout", "throws"}

\* The check for the injected script, and its injection.
CheckOutcomes == {"present", "absent", "throws"}
InjectOutcomes == {"ok", "throws"}

\* The native query for interactive elements.
NativeOutcomes == {"elements", "empty", "throws"}

\* (mutant) an exception passes through the try statement
TryCatch_NoCatch(v, handler) == v

\* try { v } catch { handler }, "raised" standing for a thrown exception
TryCatch(v, handler) == IF v = "raised" THEN handler ELSE v

\* _buildDomTree, the try block: check, injection, run under a timeout, parse;
\* a null or unusable result throws.
BuildPrimary(check, inject, run) ==
  IF check = "throws" THEN "raised"
  ELSE IF check = "absent" /\ inject = "throws" THEN "raised"
  ELSE IF run \in {"tree", "placeholder"} THEN run
  ELSE "raised"

\* _buildDomTree, the catch block: a second run with simplified settings inside
\* a try of its own, then the minimal body element.
BuildFallback(fb) ==
  LET attempt == IF fb \in {"tree", "placeholder"} THEN fb
                 ELSE IF fb = "null" THEN "minimal"
                 ELSE "raised"
  IN  TryCatch(attempt, "minimal")

buildDomTreeService(check, inject, run, fb) ==
  TryCatch(BuildPrimary(check, inject, run), BuildFallback(fb))

\* getClickableElements, the native fallback.
NativeFallback(native) ==
  IF native = "throws" THEN "raised"
  ELSE IF native = "empty" THEN "none"
  ELSE "native_tree"

\* getClickableElements: the state built from the tree of _buildDomTree, else
\* from the native query, else null.
getClickableElements(check, inject, run, fb, native) ==
  LET tree == TryCatch(buildDomTreeService(check, inject, run, fb), "nothing")
  IN  TryCatch(IF tree # "nothing" THEN tree ELSE NativeFallback(native), "none")

InitPerceive ==
  /\ StepLoopIdle
  /\ OthersIdleBut("per")
  /\ \E c \in CheckOutcomes, i \in InjectOutcomes, r \in ScriptOutcomes,
        f \in ScriptOutcomes \ {"timeout"}, n \in NativeOutcomes :
       per = [phase |-> "called", check |-> c, inject |-> i, run |-> r, fb |-> f,
              native |-> n, result |-> "pending"]

GetClickableElementsSettles ==
  /\ per.phase = "called"
  /\ per' = [per EXCEPT !.phase = "settled",
                        !.result = getClickableElements(per.check, per.inject, per.run,
                                                        per.fb, per.native)]
  /\ UNCHANGED <<stepVars, loc, dom, pst, drop, pup, hb, ev, scr, hl, mem, shot, sel, kb, lab, bg>>

NextPerceive == GetClickableElementsSettles

SpecPerceive == InitPerceive /\ [][NextPerceive]_vars

\* The try block of _buildDomTree fails.
PrimaryFails ==
  \/ per.check = "throws"
  \/ per.check = "absent" /\ per.inject = "throws"
  \/ per.run \notin {"tree", "placeholder"}

NoInteraction ==
  LET r == CallAction(act.kind, act.env)
  IN  ~r.found /\ ~r.tried /\ ~r.acted

Updates == 1..MaxUpdates

\* The fields of this._state; each holds the number of the perception cycle
\* its value comes from, 0 for the initial state.
EarlyFields == {"elementTree", "selectorMap", "url"}
LateFields == {"title", "screenshot", "pixelsAbove", "pixelsBelow"}
StateFields == EarlyFields \cup LateFields

InitialPageState == [f \in StateFields |-> 0]

\* A call of _updateState: its cycle and where it is suspended ("collect":
\* before the assignments, "title": at await title() in their middle).
IdleUpdate == [pc |-> "idle", cycle |-> 0]

InitState ==
  /\ StepLoopIdle
  /\ OthersIdleBut("pst")
  /\ pst = [phase |-> "page", state |-> InitialPageState, nCycles |-> 0,
            upd |-> [u \in Updates |-> IdleUpdate]]

\* _updateState is called: the page is probed, the highlights removed, the
\* elements, the screenshot and the scroll offsets are awaited.
UpdateStateCalled(u) ==
  /\ pst.upd[u].pc = "idle"
  /\ pst.nCycles < MaxCycles
  /\ pst' = [pst EXCEPT !.nCycles = @ + 1,
                        !.upd[u] = [pc |-> "collect", cycle |-> pst.nCycles + 1]]
  /\ UNCHANGED <<stepVars, loc, dom, per, drop, pup, hb, ev, scr, hl, mem, shot, sel, kb, lab, bg>>

\* No elements, or an awaited call rejects before the assignments:
\* this._state is returned as it is.
UpdateStateGivesUp(u) ==
  /\ pst.upd[u].pc = "collect"
  /\ pst' = [pst EXCEPT !.upd[u] = IdleUpdate]
  /\ UNCHANGED <<stepVars, loc, dom, per, drop, pup, hb, ev, scr, hl, mem, shot, sel, kb, lab, bg>>

\* elementTree, selectorMap and url are assigned, then title() is awaited.
UpdateStateAssigns(u) ==
  /\ pst.upd[u].pc = "collect"
  /\ pst' = [pst EXCEPT !.state = [f \in StateFields |->
                                     IF f \in EarlyFields THEN pst.upd[u].cycle ELSE @[f]],
                        !.upd[u].pc = "title"]
  /\ UNCHANGED <<stepVars, loc, dom, per, drop, pup, hb, ev, scr, hl, mem, shot, sel, kb, lab, bg>>

\* title() resolves: title, screenshot and the scroll offsets are assigned.
TitleResolves(u) ==
  /\ pst.upd[u].pc = "title"
  /\ pst' = [pst EXCEPT !.state = [f \in StateFields |->
                                     IF f \in LateFields THEN pst.upd[u].cycle ELSE @[f]],
                        !.upd[u] = IdleUpdate]
  /\ UNCHANGED <<stepVars, loc, dom, per, drop, pup, hb, ev, scr, hl, mem, shot, sel, kb, lab, bg>>

\* title() rejects: the catch block returns this._state.
TitleRejects(u) ==
  /\ pst.upd[u].pc = "title"
  /\ pst' = [pst EXCEPT !.upd[u] = IdleUpdate]
  /\ UNCHANGED <<stepVars, loc, dom, per, drop, pup, hb, ev, scr, hl, mem, shot, sel, kb, lab, bg>>

NextState ==
  \/ \E u \in Updates : UpdateStateCalled(u)
  \/ \E u \in Updates : UpdateStateGivesUp(u)
  \/ \E u \in Updates : UpdateStateAssigns(u)
  \/ \E u \in Updates : TitleResolves(u)
  \/ \E u \in Updates : TitleRejects(u)

SpecState == InitState /\ [][NextState]_vars

\* C15: at every instant all the fields of the PageState come from one and
\* the same perception cycle.
C15_StateFromOneCycle ==
  pst.phase = "page" => \A f, g \in StateFields : pst.state[f] = pst.state[g]

\* ---------------------------------------------------------------------------
\* Page.selectDropdownOption and the form-field action that calls it
\* ---------------------------------------------------------------------------

\* Option texts of a select element, and texts asked for.
OptionTexts == {"Yes", "No", "Other"}
AskedTexts == {"Yes", "No", "Maybe"}

\* What locateElement gives for the select element.
HandleOutcomes == {"handle", "null", "raised"}

DropdownCalls ==
  [inMap : BOOLEAN, connected : BOOLEAN, tagIsSelect : BOOLEAN, handle : HandleOutcomes,
   liveIsSelect : BOOLEAN, options : SUBSET OptionTexts, text : AskedTexts]

\* Page.selectDropdownOption: threw tells a thrown error from a returned
\* message, msg the kind of message, listed the option texts it enumerates,
\* selected whether the value of the select element was set.
DropdownEnd(threw, msg, listed, selected) ==
  [threw |-> threw, msg |-> msg, listed |-> listed, selected |-> selected]

selectDropdownOption(c) ==
  IF ~c.inMap \/ ~c.connected THEN DropdownEnd(TRUE, "no_element", {}, FALSE)
  ELSE IF ~c.tagIsSelect THEN DropdownEnd(TRUE, "not_select", {}, FALSE)
  ELSE IF c.handle = "raised" THEN DropdownEnd(TRUE, "locate_error", {}, FALSE)
  ELSE IF c.handle = "null" THEN DropdownEnd(TRUE, "not_located", {}, FALSE)
  \* from here on the message of the page script is returned, found or not
  ELSE IF ~c.liveIsSelect THEN DropdownEnd(FALSE, "not_select", {}, FALSE)
  ELSE IF c.text \notin c.options THEN DropdownEnd(FALSE, "option_not_found", c.options, FALSE)
  ELSE DropdownEnd(FALSE, "selected", {}, TRUE)

\* createGetFormFieldAnswerAction, field type select: the returned message is
\* not read; only a thrown error makes the result an error result.
fillSelectField(c) ==
  LET d == selectDropdownOption(c)
  IN  [error |-> d.threw, event |-> IF d.threw THEN "ACT_FAIL" ELSE "ACT_OK"]

InitDropdown ==
  /\ StepLoopIdle
  /\ OthersIdleBut("drop")
  /\ \E c \in DropdownCalls :
       drop = [phase |-> "called", call |-> c,
               end |-> DropdownEnd(FALSE, "none", {}, FALSE),
               action |-> [error |-> FALSE, event |-> "none"]]

SelectDropdownSettles ==
  /\ drop.phase = "called"
  /\ drop' = [drop EXCEPT !.phase = "settled", !.end = selectDropdownOption(drop.call),
                          !.action = fillSelectField(drop.call)]
  /\ UNCHANGED <<stepVars, loc, dom, per, pst, pup, hb, ev, scr, hl, mem, shot, sel, kb, lab, bg>>

NextDropdown == SelectDropdownSettles

SpecDropdown == InitDropdown /\ [][NextDropdown]_vars

\* The selection reached the live select element and the text asked for
\* equals none of its option texts.
OptionMissing ==
  /\ drop.phase = "settled"
  /\ drop.call.inMap /\ drop.call.connected /\ drop.call.tagIsSelect
  /\ drop.call.handle = "handle" /\ drop.call.liveIsSelect
  /\ drop.call.text \notin drop.call.options

\* C17: selecting an option whose text equals none of the option texts fails
\* with an error that lists the available option texts, and is not reported as
\* a successful action.
C17_MissingOptionFails ==
  OptionMissing
    => /\ drop.end.threw
       /\ drop.end.listed = drop.call.options
       /\ drop.action.error

\* ---------------------------------------------------------------------------
\* Page: attachPuppeteer / detachPuppeteer
\* ---------------------------------------------------------------------------

Connections == 1..MaxConnections
Calls == 1..MaxCalls
NoConnection == 0

\* A call of attachPuppeteer or detachPuppeteer: where it is suspended, and
\* the connection it holds in a local (attach: const browser).
IdleCall == [pc |-> "idle", browser |-> NoConnection]

\* browser / page: this._browser / this._puppeteerPage, as the connection
\* they belong to; made: connections created so far; disconnects: calls of
\* disconnect() on each.
InitAttach ==
  /\ StepLoopIdle
  /\ OthersIdleBut("pup")
  /\ pup = [phase |-> "page", browser |-> NoConnection, page |-> NoConnection, made |-> 0,
            disconnects |-> [c \in Connections |-> 0],
            call |-> [k \in Calls |-> IdleCall]]

\* attachPuppeteer on a valid page with no puppeteer page yet: connectTab and
\* connect are awaited.  (With a puppeteer page it returns true at once.)
AttachCalled(k) ==
  /\ pup.call[k].pc = "idle"
  /\ pup.page = NoConnection
  /\ pup.made < MaxConnections
  /\ pup' = [pup EXCEPT !.call[k].pc = "connecting"]
  /\ UNCHANGED <<stepVars, loc, dom, per, pst, drop, hb, ev, scr, hl, mem, shot, sel, kb, lab, bg>>

\* connect() rejects: attachPuppeteer rejects.
ConnectFails(k) ==
  /\ pup.call[k].pc = "connecting"
  /\ pup' = [pup EXCEPT !.call[k] = IdleCall]
  /\ UNCHANGED <<stepVars, loc, dom, per, pst, drop, hb, ev, scr, hl, mem, shot, sel, kb, lab, bg>>

\* connect() resolves: this._browser = browser; browser.pages() is awaited.
ConnectResolves(k) ==
  /\ pup.call[k].pc = "connecting"
  /\ pup.made < MaxConnections
  /\ LET c == pup.made + 1
     IN  pup' = [pup EXCEPT !.made = c, !.browser = c,
                            !.call[k] = [pc |-> "pages", browser |-> c]]
  /\ UNCHANGED <<stepVars, loc, dom, per, pst, drop, hb, ev, scr, hl, mem, shot, sel, kb, lab, bg>>

\* browser.pages() resolves: this._puppeteerPage = page; the anti-detection
\* script is awaited.
PagesResolves(k) ==
  /\ pup.call[k].pc = "pages"
  /\ pup' = [pup EXCEPT !.page = pup.call[k].browser, !.call[k].pc = "scripts"]
  /\ UNCHANGED <<stepVars, loc, dom, per, pst, drop, hb, ev, scr, hl, mem, shot, sel, kb, lab, bg>>

\* attachPuppeteer returns true.
AttachReturns(k) ==
  /\ pup.call[k].pc = "scripts"
  /\ pup' = [pup EXCEPT !.call[k] = IdleCall]
  /\ UNCHANGED <<stepVars, loc, dom, per, pst, drop, hb, ev, scr, hl, mem, shot, sel, kb, lab, bg>>

\* detachPuppeteer with this._browser set: disconnect() is called on it and
\* awaited.  (Without it the call returns at once.)
DetachCalled(k) ==
  /\ pup.call[k].pc = "idle"
  /\ pup.browser # NoConnection
  /\ pup' = [pup EXCEPT !.disconnects[pup.browser] = @ + 1,
                        !.call[k] = [pc |-> "disconnecting", browser |-> pup.browser]]
  /\ UNCHANGED <<stepVars, loc, dom, per, pst, drop, hb, ev, scr, hl, mem, shot, sel, kb, lab, bg>>

\* disconnect() resolves: this._browser = null; this._puppeteerPage = null.
DisconnectResolves(k) ==
  /\ pup.call[k].pc = "disconnecting"
  /\ pup' = [pup EXCEPT !.browser = NoConnection, !.page = NoConnection,
                        !.call[k] = IdleCall]
  /\ UNCHANGED <<stepVars, loc, dom, per, pst, drop, hb, ev, scr, hl, mem, shot, sel, kb, lab, bg>>

NextAttach ==
  \/ \E k \in Calls : AttachCalled(k)
  \/ \E k \in Calls : ConnectFails(k)
  \/ \E k \in Calls : ConnectResolves(k)
  \/ \E k \in Calls : PagesResolves(k)
  \/ \E k \in Calls : AttachReturns(k)
  \/ \E k \in Calls : DetachCalled(k)
  \/ \E k \in Calls : DisconnectResolves(k)

SpecAttach == InitAttach /\ [][NextAttach]_vars

\* The connections made and not disconnected.
OpenConnections == {c \in Connections : c <= pup.made /\ pup.disconnects[c] = 0}

\* C18: for one tab, overlapping attach calls leave at most one connection
\* open, no connection is disconnected more than once, and an open connection
\* is the one the page holds (so that a detach can disconnect it).
C18_AttachMatchedByOneDetach ==
  pup.phase = "page"
    => /\ Cardinality(OpenConnections) <= 1
       /\ \A c \in Connections : pup.disconnects[c] <= 1
       /\ \A c \in OpenConnections : pup.browser = c

\* ---------------------------------------------------------------------------
\* Side panel: connection and heartbeat
\* ---------------------------------------------------------------------------

Ports == 1..MaxPorts
NoPort == 0
PingOutcomes == {"sent", "throws"}

\* portRef / heartbeatRef: portRef.current and heartbeatIntervalRef.current
\* (an interval is named by the port it was started for); timers: the
\* intervals that are running; opened: ports connected so far; closed:
\* ports on which disconnect() was called or whose other end went away;
\* pings: postMessage({type: 'heartbeat'}) calls per port; failed: ports on
\* which such a call threw; late: heartbeat attempts on a port after one
\* threw; connectError: the "Failed to connect" message was shown.
InitHeartbeat ==
  /\ StepLoopIdle
  /\ OthersIdleBut("hb")
  /\ hb = [phase |-> "panel", portRef |-> NoPort, heartbeatRef |-> NoPort, timers |-> {},
           opened |-> 0, connectError |-> FALSE,
           closed |-> [c \in Ports |-> FALSE],
           pings |-> [c \in Ports |-> 0],
           failed |-> [c \in Ports |-> FALSE],
           late |-> [c \in Ports |-> 0]]

stopConnection_KeepsTimer(h) ==
  IF h.portRef # NoPort
  THEN [h EXCEPT !.closed[h.portRef] = TRUE, !.portRef = NoPort]
  ELSE h

\* stopConnection: the interval is cleared, the port disconnected and dropped.
stopConnection(h) ==
  LET cleared == IF h.heartbeatRef # NoPort
                 THEN [h EXCEPT !.timers = @ \ {h.heartbeatRef}, !.heartbeatRef = NoPort]
                 ELSE h
  IN  IF cleared.portRef # NoPort
      THEN [cleared EXCEPT !.closed[cleared.portRef] = TRUE, !.portRef = NoPort]
      ELSE cleared

\* setupConnection with no port: connect, register the listeners, clear a
\* previous interval and start a new one.
SetupConnection ==
  /\ hb.phase = "panel"
  /\ hb.portRef = NoPort
  /\ hb.opened < MaxPorts
  /\ LET c == hb.opened + 1
     IN  hb' = [hb EXCEPT !.opened = c, !.portRef = c, !.heartbeatRef = c,
                          !.timers = (@ \ {hb.heartbeatRef}) \cup {c}]
  /\ UNCHANGED <<stepVars, loc, dom, per, pst, drop, pup, ev, scr, hl, mem, shot, sel, kb, lab, bg>>

\* setupConnection when chrome.runtime.connect throws: the failure is shown
\* as a message and portRef is nulled.
SetupConnectionFails ==
  /\ hb.phase = "panel"
  /\ hb.portRef = NoPort
  /\ hb' = [hb EXCEPT !.portRef = NoPort, !.connectError = TRUE]
  /\ UNCHANGED <<stepVars, loc, dom, per, pst, drop, pup, ev, scr, hl, mem, shot, sel, kb, lab, bg>>

\* The interval callback of timer t: with a valid port a heartbeat is posted
\* and, when posting throws, stopConnection is called; without one,
\* stopConnection is called.
HeartbeatTick(t, outcome) ==
  /\ hb.phase = "panel"
  /\ t \in hb.timers
  /\ IF hb.portRef # NoPort
     THEN /\ hb.pings[hb.portRef] < MaxPings
          /\ LET c == hb.portRef
                 tried == [hb EXCEPT !.pings[c] = @ + 1,
                                     !.late[c] = IF hb.failed[c] THEN @ + 1 ELSE @]
             IN  hb' = IF outcome = "throws"
                       THEN stopConnection([tried EXCEPT !.failed[c] = TRUE])
                       ELSE tried
     ELSE hb' = stopConnection(hb)
  /\ UNCHANGED <<stepVars, loc, dom, per, pst, drop, pup, ev, scr, hl, mem, shot, sel, kb, lab, bg>>

\* The onDisconnect listener: the other end closed the port.
OnDisconnect ==
  /\ hb.phase = "panel"
  /\ hb.portRef # NoPort
  /\ hb' = [hb EXCEPT !.closed[hb.portRef] = TRUE, !.portRef = NoPort,
                      !.timers = @ \ {hb.heartbeatRef}, !.heartbeatRef = NoPort]
  /\ UNCHANGED <<stepVars, loc, dom, per, pst, drop, pup, ev, scr, hl, mem, shot, sel, kb, lab, bg>>

\* stopConnection called from elsewhere: a failed sendMessage, the end of a
\* task, the unmount of the panel.
StopConnectionCalled ==
  /\ hb.phase = "panel"
  /\ hb' = stopConnection(hb)
  /\ UNCHANGED <<stepVars, loc, dom, per, pst, drop, pup, ev, scr, hl, mem, shot, sel, kb, lab, bg>>

NextHeartbeat ==
  \/ SetupConnection
  \/ SetupConnectionFails
  \/ \E t \in Ports, o \in PingOutcomes : HeartbeatTick(t, o)
  \/ OnDisconnect
  \/ StopConnectionCalled

SpecHeartbeat == InitHeartbeat /\ [][NextHeartbeat]_vars

\* C19: once a heartbeat has failed on a port, the state the failing callback
\* leaves has that port's interval cleared and the port disconnected and
\* dropped, and no heartbeat is attempted on that port afterwards.
C19_FailedPingTearsDown ==
  hb.phase = "panel"
    => \A c \in Ports :
         hb.failed[c] => /\ c \notin hb.timers
                         /\ hb.heartbeatRef # c
                         /\ hb.portRef # c
                         /\ hb.closed[c]
                         /\ hb.late[c] = 0

\* A heartbeat failed on a port, and a later port was opened and pinged.
C19_Witness ==
  /\ hb.phase = "panel"
  /\ \E c \in Ports : hb.failed[c] /\ hb.pings[c] = MaxPings
                      /\ hb.portRef > c /\ hb.pings[hb.portRef] > 0

\* ---------------------------------------------------------------------------
\* Action notifications
\* ---------------------------------------------------------------------------

\* The registered actions studied and the return paths of each.
ActionPaths ==
  {<<"done", "returns">>,
   <<"click_element", "invalid_input">>, <<"click_element", "missing_index">>,
   <<"click_element", "file_uploader">>, <<"click_element", "clicked">>,
   <<"click_element", "click_throws">>,
   <<"input_text", "invalid_input">>, <<"input_text", "missing_index">>,
   <<"input_text", "typed">>, <<"input_text", "type_throws">>,
   <<"extract_content", "invalid_input">>, <<"extract_content", "page_throws">>,
   <<"extract_content", "extracted">>, <<"extract_content", "llm_throws">>}

\* What a handler emits on a path, and whether it throws.
Handled(events, threw) == [events |-> events, threw |-> threw]

done == Handled(<<"ACT_START", "ACT_OK">>, FALSE)

clickElementEvents(path) ==
  CASE path = "missing_index" -> Handled(<<"ACT_START">>, TRUE)
    [] path = "file_uploader" -> Handled(<<"ACT_START">>, FALSE)
    [] path = "clicked"       -> Handled(<<"ACT_START", "ACT_OK">>, FALSE)
    [] path = "click_throws"  -> Handled(<<"ACT_START", "ACT_FAIL">>, FALSE)

inputTextEvents(path) ==
  CASE path = "missing_index" -> Handled(<<"ACT_START">>, TRUE)
    [] path = "typed"         -> Handled(<<"ACT_START", "ACT_OK">>, FALSE)
    [] path = "type_throws"   -> Handled(<<"ACT_START">>, TRUE)

extractContent(path) ==
  CASE path = "page_throws" -> Handled(<<>>, TRUE)
    [] path = "extracted"   -> Handled(<<>>, FALSE)
    [] path = "llm_throws"  -> Handled(<<>>, FALSE)

\* Action.call: input that does not parse throws before the handler runs.
ActionCall(kind, path) ==
  IF path = "invalid_input" THEN Handled(<<>>, TRUE)
  ELSE CASE kind = "done"            -> done
         [] kind = "click_element"   -> clickElementEvents(path)
         [] kind = "input_text"      -> inputTextEvents(path)
         [] kind = "extract_content" -> extractContent(path)

\* doMultiAction, one turn of its loop: a thrown error is notified as ACT_FAIL.
EventsOfAction(kind, path) ==
  LET h == ActionCall(kind, path)
  IN  IF h.threw THEN Append(h.events, "ACT_FAIL") ELSE h.events

InitEvents ==
  /\ StepLoopIdle
  /\ OthersIdleBut("ev")
  /\ ev = [phase |-> "actions", calls |-> <<>>]

\* One action of the list is called and settles.
ActionNotifies(kind, path) ==
  /\ ev.phase = "actions"
  /\ Len(ev.calls) < MaxActionCalls
  /\ ev' = [ev EXCEPT !.calls = Append(@, [kind |-> kind, path |-> path,
                                           events |-> EventsOfAction(kind, path)])]
  /\ UNCHANGED <<stepVars, loc, dom, per, pst, drop, pup, hb, scr, hl, mem, shot, sel, kb, lab, bg>>

NextEvents == \E kp \in ActionPaths : ActionNotifies(kp[1], kp[2])

SpecEvents == InitEvents /\ [][NextEvents]_vars

\* C20: every action call emits ACT_START followed by exactly one of ACT_OK
\* and ACT_FAIL, and nothing else, before the next action is called.
C20_StartThenOneOutcome ==
  ev.phase = "actions"
    => \A i \in 1..Len(ev.calls) :
         ev.calls[i].events \in {<<"ACT_START", "ACT_OK">>, <<"ACT_START", "ACT_FAIL">>}

\* ---------------------------------------------------------------------------
\* Properties of the file-uploader check (SpecAct)
\* ---------------------------------------------------------------------------

\* A click_element call on an index of the selector map whose element
\* isFileUploader reports.
UploaderClick ==
  /\ act.phase = "settled"
  /\ act.kind = "click_element"
  /\ act.env.inMap
  /\ act.env.uploader

\* C21: a click on a file-upload opener returns a result without error and
\* without any locating, click attempt or click on the page, whatever a click
\* would have done.
C21_UploaderIsNotClicked ==
  UploaderClick
    => /\ act.outcome = "result"
       /\ ~act.result.error
       /\ ~act.result.threw
       /\ ~act.result.found
       /\ ~act.result.tried
       /\ ~act.result.acted

\* The uploader's element is one a click would have acted on.
C21_Witness ==
  /\ UploaderClick
  /\ act.env.connected
  /\ act.env.located
  /\ act.env.firstOk = 1
  /\ act.outcome = "result"

\* ---------------------------------------------------------------------------
\* Page.scrollDown and HumanInteraction.humanScroll
\* ---------------------------------------------------------------------------

\* window.innerHeight of the pages studied, in pixels.
ViewportHeights == {600, 900}

\* The amount argument of a scroll_down without an amount: the schema admits
\* an absent and a null amount.
NoAmounts == {"undefined", "null"}

\* getRandomInt(15, 25) for a slow scroll: the ends and the middle of the range.
SlowSteps == {15, 20, 25}

\* getRandomFloat(0.8, 1.2), in percent: the ends and the middle of the range.
Variations == {80, 100, 120}

\* addRandomBehavior after the scroll: nothing, or (case 2) a tiny scroll of
\* getRandomInt(5, 40) pixels either way; the other cases move no content.
TinyScrolls == {0, -40, -5, 5, 40}

\* window.scrollBy(0, dy) on a page with content to spare.
scrollBy(offset, dy) == offset + dy

\* The distance humanScroll works with: the default 0 of an absent distance
\* means Math.floor(window.innerHeight * 0.7); a null distance is not
\* defaulted, is not === 0, and counts as 0 in the arithmetic.
ScrollDistance(amount, innerHeight) ==
  IF amount = "undefined" THEN (innerHeight * 7) \div 10 ELSE 0

\* Math.floor(scrollDistance / steps)
StepSize(distance, steps) == distance \div steps

\* Math.floor(stepSize * variation)
CurrentStep(stepSize, variation) == (stepSize * variation) \div 100

InitScroll ==
  /\ StepLoopIdle
  /\ OthersIdleBut("scr")
  /\ \E h \in ViewportHeights, a \in NoAmounts :
       scr = [phase |-> "called", innerHeight |-> h, amount |-> a, steps |-> 0,
              stepSize |-> 0, i |-> 0, scrollY |-> 0]

\* humanScroll up to the loop: distance, direction, steps, step size.
HumanScrollStarts(steps) ==
  /\ scr.phase = "called"
  /\ scr' = [scr EXCEPT !.phase = "scrolling", !.steps = steps,
                        !.stepSize = StepSize(ScrollDistance(scr.amount, scr.innerHeight), steps)]
  /\ UNCHANGED <<stepVars, loc, dom, per, pst, drop, pup, hb, ev, hl, mem, shot, sel, kb, lab, bg>>

\* One turn of the smooth-scrolling loop.
HumanScrollStep(variation) ==
  /\ scr.phase = "scrolling"
  /\ scr.i < scr.steps
  /\ scr' = [scr EXCEPT !.i = @ + 1,
                        !.scrollY = scrollBy(@, CurrentStep(scr.stepSize, variation))]
  /\ UNCHANGED <<stepVars, loc, dom, per, pst, drop, pup, hb, ev, hl, mem, shot, sel, kb, lab, bg>>

\* humanScroll returns; scrollDown adds random behaviour or not, and returns.
ScrollDownReturns(tiny) ==
  /\ scr.phase = "scrolling"
  /\ scr.i = scr.steps
  /\ scr' = [scr EXCEPT !.phase = "settled", !.scrollY = scrollBy(@, tiny)]
  /\ UNCHANGED <<stepVars, loc, dom, per, pst, drop, pup, hb, ev, hl, mem, shot, sel, kb, lab, bg>>

NextScroll ==
  \/ \E n \in SlowSteps : HumanScrollStarts(n)
  \/ \E v \in Variations : HumanScrollStep(v)
  \/ \E t \in TinyScrolls : ScrollDownReturns(t)

SpecScroll == InitScroll /\ [][NextScroll]_vars

\* What rounding can account for: one pixel for each floor taken.
RoundingSlack(steps) == steps + 1

\* C22: scroll_down without an amount moves the vertical offset by one
\* viewport height, up to rounding.
C22_ScrollsOneViewport ==
  scr.phase = "settled"
    => /\ scr.scrollY >= scr.innerHeight - RoundingSlack(scr.steps)
       /\ scr.scrollY <= scr.innerHeight + RoundingSlack(scr.steps)

\* ---------------------------------------------------------------------------
\* removeHighlights
\* ---------------------------------------------------------------------------

TopElements == 1..MaxMarked
FrameElements == {"f1"}
ExecuteOutcomes == {"ran", "rejected"}

\* What highlighting leaves on a page: the overlay container in the top
\* document, and the browser-user-highlight-id attribute on elements of the top
\* document and of iframes.
Overlays == [container : BOOLEAN, marked : SUBSET TopElements, framed : SUBSET FrameElements]
NoOverlay == [container |-> FALSE, marked |-> {}, framed |-> {}]

\* (mutant) the script removes the attributes and leaves the container
RemoveScript_KeepsContainer(page) == [page EXCEPT !.marked = {}]

\* The injected function: the container is removed from the top document and
\* the attribute from every element document.querySelectorAll finds there.
RemoveScript(page) == [page EXCEPT !.container = FALSE, !.marked = {}]

\* removeHighlights: a rejection of executeScript is logged and swallowed.
removeHighlights(page, outcome) ==
  [page |-> IF outcome = "ran" THEN RemoveScript(page) ELSE page, raised |-> FALSE]

\* Page.removeHighlight: only with highlighting configured on a valid page.
removeHighlight(enabled, page, outcome) ==
  IF enabled THEN removeHighlights(page, outcome) ELSE [page |-> page, raised |-> FALSE]

\* A page is highlighted only by a Page configured to highlight.
InitHighlights ==
  /\ StepLoopIdle
  /\ OthersIdleBut("hl")
  /\ \E enabled \in BOOLEAN, page \in Overlays :
       /\ ~enabled => page = NoOverlay
       /\ page.marked # {} => page.container
       /\ page.framed # {} => page.container
       /\ hl = [phase |-> "page", enabled |-> enabled, page |-> page, before |-> page,
                calls |-> <<>>, after |-> <<>>, raised |-> FALSE]

RemoveHighlightCalled(outcome) ==
  /\ hl.phase = "page"
  /\ Len(hl.calls) < MaxRemoves
  /\ LET r == removeHighlight(hl.enabled, hl.page, outcome)
     IN  hl' = [hl EXCEPT !.page = r.page, !.raised = @ \/ r.raised,
                          !.calls = Append(@, outcome), !.after = Append(@, r.page)]
  /\ UNCHANGED <<stepVars, loc, dom, per, pst, drop, pup, hb, ev, scr, mem, shot, sel, kb, lab, bg>>

NextHighlights == \E o \in ExecuteOutcomes : RemoveHighlightCalled(o)

SpecHighlights == InitHighlights /\ [][NextHighlights]_vars

NextCycleAfterSuccess(l) ==
  /\ loop[l].pc = "loop"
  /\ loop[l].out = "notdone"
  /\ ~loop[l].failed
  /\ loop'[l].pc = "cycle"

\* C24: a cycle that completes without an uncaught failure resets the
\* consecutive-failure counter: the next cycle starts with the counter at zero.
C24_SuccessResetsCounter ==
  [][\A l \in Loops :
       NextCycleAfterSuccess(l) => ctx'[loop[l].exec].consecutiveFailures = 0]_vars

\* This step is the one in which doMultiAction of run l, having pushed an
\* error result for an action that threw, comes to the end of the cycle.
CycleEndsAfterFailedAction(l) ==
  /\ loop[l].pc \in {"inflight", "wait"}
  /\ loop[l].errCount >= 1
  /\ loop'[l].pc = "loop"

\* C25: a cycle in which an action ended with a failed ActionResult increments
\* the consecutive-failure counter.
C25_FailedActionCounts ==
  [][\A l \in Loops :
       CycleEndsAfterFailedAction(l)
         => ctx'[loop[l].exec].consecutiveFailures
              = ctx[loop[l].exec].consecutiveFailures + 1]_vars

\* ---------------------------------------------------------------------------
\* Properties of the native fallback (SpecPerceive)
\* ---------------------------------------------------------------------------

\* The custom tree builder cannot run (its injection is blocked) or runs out
\* of time.
BuilderBlockedOrTimedOut ==
  \/ per.check = "absent" /\ per.inject = "throws"
  \/ per.check = "present" /\ per.run = "timeout"
  \/ per.check = "absent" /\ per.inject = "ok" /\ per.run = "timeout"

\* C26: when the tree builder is blocked or times out, the perception call
\* settles with what the native-selector extraction gives.
C26_BlockedBuilderUsesNative ==
  (per.phase = "settled" /\ BuilderBlockedOrTimedOut)
    => per.result = TryCatch(NativeFallback(per.native), "none")

\* ---------------------------------------------------------------------------
\* Properties of a node that raises (SpecTree)
\* ---------------------------------------------------------------------------

\* The nodes of a document outside the subtrees of the nodes that raise or are
\* not accepted, and those of them that get a highlight index.
RECURSIVE Survivors(_)
RECURSIVE SurvivorsOfAll(_)
SurvivorsOfAll(kids) ==
  IF kids = <<>> THEN 0 ELSE Survivors(Head(kids)) + SurvivorsOfAll(Tail(kids))
Survivors(node) ==
  IF node.p \in Raising \cup {"rejected"} THEN 0
  ELSE IF node.p = "text" THEN 1
  ELSE 1 + SurvivorsOfAll(node.kids)

RECURSIVE HotSurvivors(_)
RECURSIVE HotSurvivorsOfAll(_)
HotSurvivorsOfAll(kids) ==
  IF kids = <<>> THEN 0 ELSE HotSurvivors(Head(kids)) + HotSurvivorsOfAll(Tail(kids))
HotSurvivors(node) ==
  IF node.p \in Raising \cup {"rejected", "text"} THEN 0
  ELSE (IF node.p \in {"hot", "hot_hl_throws"} THEN 1 ELSE 0) + HotSurvivorsOfAll(node.kids)

\* The nodes of a returned tree.
RECURSIVE SizeOf(_)
RECURSIVE SizeOfAll(_)
SizeOfAll(nodes) == IF nodes = <<>> THEN 0 ELSE SizeOf(Head(nodes)) + SizeOfAll(Tail(nodes))
SizeOf(node) == 1 + SizeOfAll(node.children)

\* C27: when body itself is processed without error, a node that raises takes
\* only itself and its subtree out of the snapshot: every other accepted node
\* is in the returned tree, with its highlight index.
C27_RaisingNodeRemovesOnlyItself ==
  (dom.phase = "returned" /\ dom.doc.p \notin Raising)
    => /\ SizeOf(dom.tree) = Survivors(dom.doc)
       /\ Len(IndicesOf(dom.tree)) = HotSurvivors(dom.doc)

\* ---------------------------------------------------------------------------
\* NavigatorAgent: state messages and the recovery note
\* ---------------------------------------------------------------------------

\* A message of the history: the task, a perceived-state message, the
\* recovery note; cycle is the cycle that added it (0: before the first).
Msg(kind, cycle) == [kind |-> kind, cycle |-> cycle]

\* addStateMessageToMemory: without a custom state nothing is added when a
\* state message is marked as added; the mark is set.
addStateMessageToMemory(m, custom) ==
  IF m.stateMessageAdded /\ ~custom THEN m
  ELSE [m EXCEPT !.history = Append(@, Msg("state", m.cycle)), !.stateMessageAdded = TRUE]

\* How many of the two additions of ensureStateHasGoal succeed before
\* addMessageWithTokens throws (the exception is caught and logged).
GoalAdditions == 0..2

\* ensureStateHasGoal: with the mark set, a state message carrying the goal is
\* added, and added again; the history always holds the task, so a goal is
\* found.
ensureStateHasGoal(m, adds) ==
  IF ~m.stateMessageAdded \/ adds = 0 THEN m
  ELSE IF adds = 1 THEN addStateMessageToMemory(m, TRUE)
  ELSE addStateMessageToMemory(addStateMessageToMemory(m, TRUE), TRUE)

\* MessageManager.removeLastStateMessage: the most recent state message
\* leaves the history.
RECURSIVE RemoveLast(_, _)
RemoveLast(h, kind) ==
  IF h = <<>> THEN <<>>
  ELSE IF h[Len(h)].kind = kind THEN SubSeq(h, 1, Len(h) - 1)
  ELSE Append(RemoveLast(SubSeq(h, 1, Len(h) - 1), kind), h[Len(h)])

\* removeLastStateMessageFromMemory: only with the mark set; the mark is
\* cleared.
removeLastStateMessageFromMemory(m) ==
  IF ~m.stateMessageAdded THEN m
  ELSE [m EXCEPT !.history = RemoveLast(@, "state"), !.stateMessageAdded = FALSE]

InitMemory ==
  /\ StepLoopIdle
  /\ OthersIdleBut("mem")
  /\ mem = [phase |-> "between", cycle |-> 0, history |-> <<Msg("task", 0)>>,
            stateMessageAdded |-> FALSE, consecutiveFailures |-> 0, last |-> "none"]

\* execute up to the call of the oracle: the goal is ensured and the state
\* message added.
CycleStarts(adds) ==
  /\ mem.phase = "between"
  /\ mem.cycle < MaxHistoryCycles
  /\ LET m == [mem EXCEPT !.cycle = @ + 1]
     IN  mem' = [addStateMessageToMemory(ensureStateHasGoal(m, adds), FALSE)
                   EXCEPT !.phase = "cycle"]
  /\ UNCHANGED <<stepVars, loc, dom, per, pst, drop, pup, hb, ev, scr, hl, shot, sel, kb, lab, bg>>

\* The try block runs to its end: the goal is ensured again; done ends the
\* task.
CycleCompletes(isDone, adds) ==
  /\ mem.phase = "cycle"
  /\ mem' = [ensureStateHasGoal(mem, adds) EXCEPT !.phase = IF isDone THEN "ended" ELSE "between",
                                            !.last = "completed"]
  /\ UNCHANGED <<stepVars, loc, dom, per, pst, drop, pup, hb, ev, scr, hl, shot, sel, kb, lab, bg>>

\* The oracle call or doMultiAction throws: the catch block.
CycleFails(recoverOk) ==
  /\ mem.phase = "cycle"
  /\ LET n == mem.consecutiveFailures + 1
         m == [mem EXCEPT !.consecutiveFailures = n]
     IN  IF TooManyFailures(n, maxFailures)
           THEN mem' = [m EXCEPT !.phase = "ended", !.last = "too_many"]
         ELSE IF ~recoverOk
           THEN mem' = [m EXCEPT !.phase = "ended", !.last = "no_recovery"]
         ELSE LET noted == [m EXCEPT !.history = Append(@, Msg("note", m.cycle))]
              IN  mem' = [ensureStateHasGoal(removeLastStateMessageFromMemory(noted), 2)
                            EXCEPT !.phase = "between", !.last = "recovered"]
  /\ UNCHANGED <<stepVars, loc, dom, per, pst, drop, pup, hb, ev, scr, hl, shot, sel, kb, lab, bg>>

NextMemory ==
  \/ \E a \in GoalAdditions : CycleStarts(a)
  \/ \E d \in BOOLEAN, a \in GoalAdditions : CycleCompletes(d, a)
  \/ \E r \in BOOLEAN : CycleFails(r)

SpecMemory == InitMemory /\ [][NextMemory]_vars

\* The messages of a kind that a cycle added and that are in the history.
Added(kind, cycle) ==
  {i \in 1..Len(mem.history) : mem.history[i] = Msg(kind, cycle)}

\* The last cycle failed below the threshold and the next has not begun.
AfterRecoveredFailure == mem.phase = "between" /\ mem.last = "recovered"

\* C28 as stated: after a failed cycle below the threshold the history holds
\* the recovery note of that cycle and no state message that the cycle added.
C28_FailedCycleLeavesNoState ==
  AfterRecoveredFailure
    => /\ Added("note", mem.cycle) # {}
       /\ Added("state", mem.cycle) = {}

\* ---------------------------------------------------------------------------
\* Properties of pause and resume inside a multi-action step (Spec)
\* ---------------------------------------------------------------------------

\* doMultiAction of run l has returned at a check point after an action, with
\* actions of the list left uncalled, and the task is not stopped.
PausedWithActionsLeft(l) ==
  /\ loop[l].pc = "loop"
  /\ loop[l].out = "notdone"
  /\ loop[l].skipped = "next"
  /\ ~ctx[loop[l].exec].stopped

\* C29: a step paused after an action, with actions of its list not yet
\* executed, does not go on to the next cycle (and so to a new perception)
\* before those actions have been executed.
C29_ResumeRunsRemainingActions ==
  [][\A l \in Loops : PausedWithActionsLeft(l) => loop'[l].pc # "cycle"]_vars

\* ---------------------------------------------------------------------------
\* Properties of the click and type cascades (SpecAct)
\* ---------------------------------------------------------------------------

\* The mechanisms clickElementNode attempts on a located element: in stealth
\* mode humanMouseClick alone, otherwise the tiers up to the first that works;
\* then, when those have failed and the node has an XPath, the XPath click.
ClickMechanisms(env) ==
  LET tiers == IF env.stealth THEN 1
               ELSE IF env.firstOk \in 1..ClickTiers THEN env.firstOk ELSE ClickTiers
      failed == IF env.stealth THEN env.firstOk # 1 ELSE env.firstOk \notin 1..ClickTiers
  IN  tiers + (IF failed /\ env.xpath # "empty" THEN 1 ELSE 0)

\* The mechanisms inputTextElementNode attempts on a located element: the
\* tiers up to the first that works; then, when those have failed and the node
\* has an XPath, the XPath assignment.
TypeMechanisms(env) ==
  LET tiers == IF env.firstOk \in 1..TypeTiers THEN env.firstOk ELSE TypeTiers
      failed == env.firstOk \notin 1..TypeTiers
  IN  tiers + (IF failed /\ env.xpath # "empty" THEN 1 ELSE 0)

\* The cascade of the action under study ran on a located element and the
\* action ended with an error result.
CascadeFailed ==
  /\ act.phase = "settled"
  /\ act.outcome = "result"
  /\ act.result.tried
  /\ act.result.error

\* C30: click and text input end in error only after the primary mechanism
\* and at least two further mechanisms have been attempted on the located
\* element.
C30_ErrorAfterThreeMechanisms ==
  CascadeFailed
    => IF act.kind = "click_element"
         THEN ClickMechanisms(act.env) >= 3
         ELSE TypeMechanisms(act.env) >= 3

\* ---------------------------------------------------------------------------
\* Properties of a throwing action (Spec)
\* ---------------------------------------------------------------------------

\* C31: when the action in flight settles, the cycle is treated as failed
\* only if three actions of the step had thrown before and this one throws
\* too; with fewer, a throw is counted, the failure counter is untouched and
\* the loop over the step's actions goes on: the step calls the next action or
\* ends normally.
C31_ThrowIsIsolated ==
  [][\A l \in Loops :
       (loop[l].pc = "inflight" /\ loop'[l] # loop[l])
         => /\ loop'[l].failed => loop[l].errCount = MaxActionErrors
            /\ loop[l].errCount < MaxActionErrors
                 => /\ ~loop'[l].failed
                    /\ ctx'[loop[l].exec].consecutiveFailures
                         = ctx[loop[l].exec].consecutiveFailures
                    /\ \/ loop'[l].pc \in {"inflight", "wait"}
                          /\ loop'[l].errCount \in {loop[l].errCount, loop[l].errCount + 1}
                       \/ loop'[l].pc = "loop" /\ loop'[l].out \in {"notdone", "done"}]_vars

\* C31 witness: three actions of a step have thrown and a further action of
\* the same step is in flight.
C31_Witness ==
  \E l \in Loops : loop[l].pc = "inflight" /\ loop[l].errCount = MaxActionErrors

\* ---------------------------------------------------------------------------
\* Page.takeScreenshot
\* ---------------------------------------------------------------------------

\* An awaited puppeteer call resolves or rejects.
AwaitOutcomes == {"resolves", "rejects"}

\* style: the puppeteer-disable-animations style element is in the page;
\* pc: where the call is suspended; fullPage: the running call's argument;
\* results: the argument and the end of each call so far.
InitShot ==
  /\ StepLoopIdle
  /\ OthersIdleBut("shot")
  /\ shot = [phase |-> "page", style |-> FALSE, pc |-> "idle", fullPage |-> FALSE,
             results |-> <<>>]

\* The catch block: the error is logged and rethrown.
ScreenshotRaises(sh) ==
  [sh EXCEPT !.pc = "idle",
             !.results = Append(@, [fullPage |-> sh.fullPage, end |-> "raised"])]

\* takeScreenshot on an attached page: the evaluate that adds the style is
\* awaited.
TakeScreenshotCalled(fullPage) ==
  /\ shot.phase = "page"
  /\ shot.pc = "idle"
  /\ Len(shot.results) < MaxShots
  /\ shot' = [shot EXCEPT !.pc = "disable", !.fullPage = fullPage]
  /\ UNCHANGED <<stepVars, loc, dom, per, pst, drop, pup, hb, ev, scr, hl, mem, sel, kb, lab, bg>>

\* The first evaluate settles: the style is added unless present; then
\* screenshot() is awaited.
DisableSettles(o) ==
  /\ shot.phase = "page"
  /\ shot.pc = "disable"
  /\ shot' = IF o = "rejects" THEN ScreenshotRaises(shot)
             ELSE [shot EXCEPT !.style = TRUE, !.pc = "capture"]
  /\ UNCHANGED <<stepVars, loc, dom, per, pst, drop, pup, hb, ev, scr, hl, mem, sel, kb, lab, bg>>

\* screenshot() settles; then the evaluate that removes the style is awaited.
CaptureSettles(o) ==
  /\ shot.phase = "page"
  /\ shot.pc = "capture"
  /\ shot' = IF o = "rejects" THEN ScreenshotRaises(shot)
             ELSE [shot EXCEPT !.pc = "cleanup"]
  /\ UNCHANGED <<stepVars, loc, dom, per, pst, drop, pup, hb, ev, scr, hl, mem, sel, kb, lab, bg>>

\* The second evaluate settles: the style is removed and the image returned.
CleanupSettles(o) ==
  /\ shot.phase = "page"
  /\ shot.pc = "cleanup"
  /\ shot' = IF o = "rejects" THEN ScreenshotRaises(shot)
             ELSE [shot EXCEPT !.style = FALSE, !.pc = "idle",
                               !.results = Append(@, [fullPage |-> shot.fullPage,
                                                      end |-> "image"])]
  /\ UNCHANGED <<stepVars, loc, dom, per, pst, drop, pup, hb, ev, scr, hl, mem, sel, kb, lab, bg>>

NextShot ==
  \/ \E fullPage \in BOOLEAN : TakeScreenshotCalled(fullPage)
  \/ \E o \in AwaitOutcomes : DisableSettles(o)
  \/ \E o \in AwaitOutcomes : CaptureSettles(o)
  \/ \E o \in AwaitOutcomes : CleanupSettles(o)

SpecShot == InitShot /\ [][NextShot]_vars

\* C32: after a screenshot call has finished, by returning an image or by
\* raising, the suppressing style is not in the page.
C32_StyleRemovedAfterScreenshot ==
  (shot.phase = "page" /\ shot.pc = "idle" /\ shot.results # <<>>) => ~shot.style

\* The same for calls that returned an image.
C32_StyleRemovedAfterImage ==
  (shot.phase = "page" /\ shot.pc = "idle" /\ shot.results # <<>>
     /\ shot.results[Len(shot.results)].end = "image") => ~shot.style

\* ---------------------------------------------------------------------------
\* Remove-highlights and elements outside the top document (SpecHighlights)
\* ---------------------------------------------------------------------------

\* C33: after remove-highlights has completed on a highlighting page, the
\* overlay container is gone and no highlighted element carries the marker
\* attribute, elements inside iframes and shadow roots included.
C33_NoMarkerAfterRemove ==
  (hl.phase = "page" /\ hl.enabled /\ hl.calls # <<>>)
    => /\ ~hl.page.container
       /\ hl.page.marked = {}
       /\ hl.page.framed = {}

\* What the injected function does achieve when it runs: the container and
\* the attributes of the top document are gone.
C33_TopDocumentCleanedWhenRan ==
  (hl.phase = "page" /\ hl.enabled /\ hl.calls # <<>>
     /\ hl.calls[Len(hl.calls)] = "ran")
    => ~hl.page.container /\ hl.page.marked = {}

\* ---------------------------------------------------------------------------
\* Page.selectDropdownOption: the script run on the select element
\* ---------------------------------------------------------------------------

\* Texts are sequences of characters; " " is white space and "Y" differs from
\* "y" by case alone.
Chars == {"y", "Y", " "}
Texts == UNION {[1..n -> Chars] : n \in 0..MaxTextLen}
OptionValues == {"v1", "v2"}

RECURSIVE TrimStart(_)
TrimStart(t) == IF t # <<>> /\ Head(t) = " " THEN TrimStart(Tail(t)) ELSE t

RECURSIVE TrimEnd(_)
TrimEnd(t) ==
  IF t # <<>> /\ t[Len(t)] = " " THEN TrimEnd(SubSeq(t, 1, Len(t) - 1)) ELSE t

\* String.prototype.trim
trim(t) == TrimEnd(TrimStart(t))

\* (mutant) the requested text is trimmed as well
OptionMatches_TrimsBoth(opt, optionText) == trim(opt.text) = trim(optionText)

\* The predicate of options.find: opt.text.trim() === optionText
OptionMatches(opt, optionText) == trim(opt.text) = optionText

\* options.find: the index of the first matching option, 0 for undefined.
FindOption(options, optionText) ==
  IF \E i \in 1..Len(options) : OptionMatches(options[i], optionText)
  THEN CHOOSE i \in 1..Len(options) :
         /\ OptionMatches(options[i], optionText)
         /\ \A j \in 1..(i - 1) : ~OptionMatches(options[j], optionText)
  ELSE 0

\* The function evaluated on the element handle: the value of the select
\* element afterwards, the events dispatched on it and the found flag.
SelectScript(select, optionText) ==
  LET i == FindOption(select.options, optionText)
  IN  IF i = 0 THEN [value |-> select.value, events |-> <<>>, found |-> FALSE]
      ELSE [value |-> select.options[i].value,
            events |-> IF select.value # select.options[i].value
                       THEN <<"change", "input">> ELSE <<>>,
            found |-> TRUE]

\* The option lists of the select element.
OptionLists == UNION {[1..n -> [text : Texts, value : OptionValues]] : n \in 1..MaxOptions}

\* scriptRuns: the checks before the evaluate pass and the element is located.
InitSelect ==
  /\ StepLoopIdle
  /\ OthersIdleBut("sel")
  /\ \E os \in OptionLists, optionText \in Texts, scriptRuns \in BOOLEAN :
       \E k \in 1..Len(os) :
         sel = [phase |-> "called", options |-> os, before |-> os[k].value,
                value |-> os[k].value, text |-> optionText, scriptRuns |-> scriptRuns,
                events |-> <<>>, found |-> FALSE, threw |-> FALSE]

SelectOptionSettles ==
  /\ sel.phase = "called"
  /\ sel' = IF ~sel.scriptRuns THEN [sel EXCEPT !.phase = "settled", !.threw = TRUE]
            ELSE LET r == SelectScript([options |-> sel.options, value |-> sel.value], sel.text)
                 IN  [sel EXCEPT !.phase = "settled", !.value = r.value,
                                 !.events = r.events, !.found = r.found]
  /\ UNCHANGED <<stepVars, loc, dom, per, pst, drop, pup, hb, ev, scr, hl, mem, shot, kb, lab, bg>>

NextSelect == SelectOptionSettles

SpecSelect == InitSelect /\ [][NextSelect]_vars

\* Some option's trimmed text is exactly the requested text.
SomeOptionEqual ==
  \E i \in 1..Len(sel.options) : trim(sel.options[i].text) = sel.text

DoneResultInStep(l) == loop[l].anyDone /\ loop[l].pc \in {"wait", "inflight"}

\* C35: once an action of a step has returned a result with isDone set, no
\* later action of that step is executed.
C35_NoActionAfterDone ==
  [][\A l \in Loops : DoneResultInStep(l) => ~HandlerCalled(l)]_vars

\* ---------------------------------------------------------------------------
\* Page.sendKeys, key combinations
\* ---------------------------------------------------------------------------

ModifierKeys == {"Control", "Shift", "Alt"}

\* keys.split('+') without its last part, for a combination.
ModifierLists == UNION {[1..n -> ModifierKeys] : n \in 1..MaxModifiers}

\* modifiers: the modifier parts of the combination; pc and i: the await at
\* which the call is suspended; down: the keys the keyboard holds down.
InitKeys ==
  /\ StepLoopIdle
  /\ OthersIdleBut("kb")
  /\ \E ms \in ModifierLists :
       kb = [phase |-> "page", modifiers |-> ms, pc |-> "down", i |-> 1, down |-> {},
             end |-> "none"]

\* The catch block: the error is logged and a new one thrown.
SendKeysRaises(k) == [k EXCEPT !.pc = "ended", !.end = "raised"]

\* keyboard.down of the i-th modifier settles.
ModifierDownSettles(o) ==
  /\ kb.phase = "page"
  /\ kb.pc = "down"
  /\ kb' = IF o = "rejects" THEN SendKeysRaises(kb)
           ELSE [kb EXCEPT !.down = @ \cup {kb.modifiers[kb.i]},
                           !.i = IF kb.i < Len(kb.modifiers) THEN kb.i + 1 ELSE kb.i,
                           !.pc = IF kb.i < Len(kb.modifiers) THEN "down" ELSE "press"]
  /\ UNCHANGED <<stepVars, loc, dom, per, pst, drop, pup, hb, ev, scr, hl, mem, shot, sel, lab, bg>>

\* keyboard.press of the main key settles; the modifiers are then released in
\* reverse order.
MainKeySettles(o) ==
  /\ kb.phase = "page"
  /\ kb.pc = "press"
  /\ kb' = IF o = "rejects" THEN SendKeysRaises(kb)
           ELSE [kb EXCEPT !.pc = "up", !.i = Len(kb.modifiers)]
  /\ UNCHANGED <<stepVars, loc, dom, per, pst, drop, pup, hb, ev, scr, hl, mem, shot, sel, lab, bg>>

\* keyboard.up of the i-th modifier settles.
ModifierUpSettles(o) ==
  /\ kb.phase = "page"
  /\ kb.pc = "up"
  /\ kb' = IF o = "rejects" THEN SendKeysRaises(kb)
           ELSE [kb EXCEPT !.down = @ \ {kb.modifiers[kb.i]},
                           !.i = IF kb.i > 1 THEN kb.i - 1 ELSE kb.i,
                           !.pc = IF kb.i > 1 THEN "up" ELSE "load"]
  /\ UNCHANGED <<stepVars, loc, dom, per, pst, drop, pup, hb, ev, scr, hl, mem, shot, sel, lab, bg>>

\* waitForPageAndFramesLoad settles and sendKeys returns or raises.
WaitForLoadSettles(o) ==
  /\ kb.phase = "page"
  /\ kb.pc = "load"
  /\ kb' = IF o = "rejects" THEN SendKeysRaises(kb)
           ELSE [kb EXCEPT !.pc = "ended", !.end = "returned"]
  /\ UNCHANGED <<stepVars, loc, dom, per, pst, drop, pup, hb, ev, scr, hl, mem, shot, sel, lab, bg>>

NextKeys ==
  \/ \E o \in AwaitOutcomes : ModifierDownSettles(o)
  \/ \E o \in AwaitOutcomes : MainKeySettles(o)
  \/ \E o \in AwaitOutcomes : ModifierUpSettles(o)
  \/ \E o \in AwaitOutcomes : WaitForLoadSettles(o)

SpecKeys == InitKeys /\ [][NextKeys]_vars

\* C36: after a send-keys call for a modifier combination has ended, by
\* returning or by raising, every modifier key it pressed down is released.
C36_ModifiersReleased ==
  (kb.phase = "page" /\ kb.pc = "ended") => kb.down = {}

\* The same for the calls that returned.
C36_ModifiersReleasedOnReturn ==
  (kb.phase = "page" /\ kb.end = "returned") => kb.down = {}

\* ---------------------------------------------------------------------------
\* Overlay labels and the selector map of one perception (_buildDomTree)
\* ---------------------------------------------------------------------------

\* The elements of the page in document order: interactive and visible or
\* not, inside the viewport of the primary run or not.
PageElements == SeqsUpTo([interactive : BOOLEAN, inViewport : BOOLEAN], MaxElements)

\* isTopElement as far as the viewport decides it: with viewportExpansion -1
\* every element counts as top.
IsTop(el, viewportExpansion) == viewportExpansion = -1 \/ el.inViewport

\* The index buildDomTree gives the element at position i: the number of
\* indexed elements before it, NoIndex when it is not indexed.
IndexAt(els, viewportExpansion, i) ==
  IF els[i].interactive /\ IsTop(els[i], viewportExpansion)
    THEN Cardinality({j \in 1..(i - 1) :
                        els[j].interactive /\ IsTop(els[j], viewportExpansion)})
    ELSE NoIndex

\* The labels a run of window.buildDomTree draws: <<position, number>>.
LabelsDrawn(els, args) ==
  {<<i, IndexAt(els, args.viewportExpansion, i)>> :
     i \in {j \in 1..Len(els) :
              /\ IndexAt(els, args.viewportExpansion, j) # NoIndex
              /\ Highlighted(args, IndexAt(els, args.viewportExpansion, j))}}

\* createSelectorMap on the tree of a run: highlight index to position.
SelectorMapOf(els, viewportExpansion) ==
  {<<IndexAt(els, viewportExpansion, i), i>> :
     i \in {j \in 1..Len(els) : IndexAt(els, viewportExpansion, j) # NoIndex}}

\* How the primary executeScript ends: a tree, the 10 s timer first (the
\* script finishes in the page and its result is dropped), or a rejection
\* before the script ran.
PrimaryEnds == {"tree", "timeout", "rejected"}

\* How the retry ends: a tree, or null or a rejection and the minimal tree.
RetryEnds == {"tree", "minimal"}

\* The configuration of the perception with highlighting enabled.
PerceptionArgs ==
  [doHighlightElements : {TRUE}, focusHighlightIndex : {-1, 0}, viewportExpansion : {0, -1}]

\* The arguments of the simplified retry.
RetryArgs == [doHighlightElements |-> FALSE, focusHighlightIndex |-> -1, viewportExpansion |-> -1]

\* removeHighlight has run: the page carries no label.
InitLabels ==
  /\ StepLoopIdle
  /\ OthersIdleBut("lab")
  /\ \E els \in PageElements, a \in PerceptionArgs :
       lab = [phase |-> "primary", els |-> els, args |-> a, labels |-> {},
              selectorMap |-> {}, from |-> "none"]

\* The race of the primary run and the timer settles.
PrimarySettles(end) ==
  /\ lab.phase = "primary"
  /\ lab' = IF end = "tree"
              THEN [lab EXCEPT !.phase = "returned", !.from = "primary",
                               !.labels = LabelsDrawn(lab.els, lab.args),
                               !.selectorMap = SelectorMapOf(lab.els, lab.args.viewportExpansion)]
            ELSE IF end = "timeout"
              THEN [lab EXCEPT !.phase = "retry", !.labels = LabelsDrawn(lab.els, lab.args)]
            ELSE [lab EXCEPT !.phase = "retry"]
  /\ UNCHANGED <<stepVars, loc, dom, per, pst, drop, pup, hb, ev, scr, hl, mem, shot, sel, kb, bg>>

\* The simplified retry settles.
RetrySettles(end) ==
  /\ lab.phase = "retry"
  /\ lab' = IF end = "tree"
              THEN [lab EXCEPT !.phase = "returned", !.from = "retry",
                               !.labels = @ \cup LabelsDrawn(lab.els, RetryArgs),
                               !.selectorMap = SelectorMapOf(lab.els, RetryArgs.viewportExpansion)]
            ELSE [lab EXCEPT !.phase = "returned", !.from = "minimal"]
  /\ UNCHANGED <<stepVars, loc, dom, per, pst, drop, pup, hb, ev, scr, hl, mem, shot, sel, kb, bg>>

NextLabels ==
  \/ \E end \in PrimaryEnds : PrimarySettles(end)
  \/ \E end \in RetryEnds : RetrySettles(end)

SpecLabels == InitLabels /\ [][NextLabels]_vars

\* Every label on the page is the index of its element in the selector map.
LabelsAgree == \A l \in lab.labels : <<l[2], l[1]>> \in lab.selectorMap

\* C37: after a perception with highlighting enabled every numeric overlay
\* label on the page equals the highlight index under which its element is
\* stored in the returned selector map, also when the first run timed out and
\* the simplified retry produced the returned tree.
C37_LabelsMatchSelectorMap ==
  lab.phase = "returned" => LabelsAgree

\* The same for the perceptions whose returned tree is the primary run's.
C37_LabelsMatchPrimaryTree ==
  (lab.phase = "returned" /\ lab.from = "primary") => LabelsAgree

\* ---------------------------------------------------------------------------
\* Cleanup after a terminal event (Spec)
\* ---------------------------------------------------------------------------

\* Executor e emits a terminal event in this step.
EmitsTerminal(e) == nTerm'[e] # nTerm[e]

\* C38: a terminal event triggers cleanup of the executor that emitted it,
\* and never of a different executor that has since become the current one.
C38_CleanupOfTheEmitter ==
  [][\A e \in Executors :
       EmitsTerminal(e)
         => /\ cleanedUp'[e]
            /\ \A x \in Executors \ {e} : cleanedUp'[x] = cleanedUp[x]]_vars

\* ---------------------------------------------------------------------------
\* background/index.ts: the current side-panel port
\* ---------------------------------------------------------------------------

PanelPorts == 1..MaxPanels

\* connected: the side-panel ports that are connected; opened: how many have
\* connected so far; currentPort: the module variable, NoPort for null;
\* events: for each execution event, the port it was posted to.
InitPorts ==
  /\ StepLoopIdle
  /\ OthersIdleBut("bg")
  /\ bg = [phase |-> "background", connected |-> {}, opened |-> 0, currentPort |-> NoPort,
           events |-> <<>>]

\* chrome.runtime.onConnect with the side panel's port name.
OnConnect ==
  /\ bg.phase = "background"
  /\ bg.opened < MaxPanels
  /\ LET port == bg.opened + 1
     IN  bg' = [bg EXCEPT !.opened = port, !.connected = @ \cup {port},
                          !.currentPort = port]
  /\ UNCHANGED <<stepVars, loc, dom, per, pst, drop, pup, hb, ev, scr, hl, mem, shot, sel, kb, lab>>

\* port.onDisconnect of a connected port.
OnPortDisconnect(port) ==
  /\ bg.phase = "background"
  /\ port \in bg.connected
  /\ bg' = [bg EXCEPT !.connected = @ \ {port}, !.currentPort = NoPort]
  /\ UNCHANGED <<stepVars, loc, dom, per, pst, drop, pup, hb, ev, scr, hl, mem, shot, sel, kb, lab>>

\* The subscriber of the execution events: the event is posted to currentPort
\* when there is one.
ExecutionEvent ==
  /\ bg.phase = "background"
  /\ Len(bg.events) < MaxEvents
  /\ bg' = [bg EXCEPT !.events = Append(@, bg.currentPort)]
  /\ UNCHANGED <<stepVars, loc, dom, per, pst, drop, pup, hb, ev, scr, hl, mem, shot, sel, kb, lab>>

NextPorts ==
  \/ OnConnect
  \/ \E port \in PanelPorts : OnPortDisconnect(port)
  \/ ExecutionEvent

SpecPorts == InitPorts /\ [][NextPorts]_vars

\* C39: while at least one side-panel port is connected, currentPort is a
\* connected port: the disconnect of an older port never clears the reference
\* to a newer port that is still connected.
C39_CurrentPortIsConnected ==
  (bg.phase = "background" /\ bg.connected # {}) => bg.currentPort \in bg.connected

\* What does hold: currentPort is null or a connected port.
C39_CurrentPortNullOrConnected ==
  bg.phase = "background" => bg.currentPort \in bg.connected \cup {NoPort}

====
